---- MODULE Spec2Model ----
(***************************************************************************)
(* A model of the MLX backend server (src/mlx_backend/server.py): the     *)
(* single active-model slot of MLXModelManager, the /load handler, and    *)
(* the /completion handler with its generator MLXModelManager.generate.   *)
(*                                                                         *)
(* Scheduling.  The server is one asyncio event loop.  A handler runs     *)
(* without interruption until it parks at a suspension point.  load_model *)
(* contains no await that parks, so a /load is one atomic step.  The      *)
(* streaming response parks after every record handed to the transport;   *)
(* the buffered (tools) response consumes generate() with `async for`,    *)
(* which never parks, so it runs to its single record without another     *)
(* handler in between.  The completion handler is therefore modelled as   *)
(* a sequence of steps tracked by pc, and other handlers may run only     *)
(* when pc is at a suspension point (Suspended).                          *)
(***************************************************************************)
EXTENDS Integers, Sequences, FiniteSets, TLC

VARIABLES
    model_manager,      \* the global MLXModelManager: the active-model slot
    MLX_VLM_AVAILABLE,  \* import mlx_vlm succeeded
    PIL_AVAILABLE,      \* import PIL succeeded
    vlm_streams,        \* hasattr(mlx_vlm, 'stream_generate')
    loadSeq,            \* number of /load requests handled so far
    lastLoad,           \* what the last /load request did, and the one before
    pc,                 \* position of the /completion handler
    req,                \* the completion request being served
    decoded_images,     \* generate: decoded_images
    prompt_tokens,      \* generate: len(prompt_tokens)
    token_count,        \* generate / _generate_with_vision: token_count
    max_tokens_generated, \* generate: max_tokens_generated
    produced,           \* responses the engine stream has produced so far
    eval_start,         \* generate: eval_start, on the model's clock
    events,             \* CompletionResponse objects yielded by generate()
    sent,               \* records written to the HTTP response
    escaped,            \* exception that left response_generator, or None
    engineCalls,        \* Inference Engine invocations made for this request
    engineFailedAt,     \* Len(events) when an engine call raised, or -1
    warnings,           \* logger.warning records of this request
    slotAtStart,        \* the slot when generate() passed its checks
    embed_in,           \* embed(): what the tokenizer and the model return, if called
    embed_out,          \* embed(): the strategy and the vector returned, if any
    loading,            \* the /load request whose load_model call is running, if any
    health,             \* /health requests: waiting, and the answers given
    other,              \* a second /completion handler, between its records
    gone,               \* the client's disconnect, if any
    environ,            \* os.environ: the variables the manager reads and sets
    model_path,         \* model_manager.model_path
    built               \* the last MLXModelManager() call: os.environ before it

vars == << model_manager, MLX_VLM_AVAILABLE, PIL_AVAILABLE, vlm_streams,
           loadSeq, lastLoad, pc, req,
           decoded_images, prompt_tokens, token_count, max_tokens_generated,
           produced, eval_start, events, sent, escaped, engineCalls,
           engineFailedAt, warnings, slotAtStart,
           embed_in, embed_out, loading, health, other, gone,
           environ, model_path, built >>

procVars == << environ, model_path, built >>
envVars == << MLX_VLM_AVAILABLE, PIL_AVAILABLE, vlm_streams, procVars >>
loadVars == << model_manager, loadSeq, lastLoad >>
embedVars == << embed_in, embed_out >>
serveVars == << loading, health, other, gone >>
genVars == << pc, req, decoded_images, prompt_tokens, token_count,
              max_tokens_generated, produced, eval_start, events, sent, escaped,
              engineCalls, engineFailedAt, warnings, slotAtStart >>

None == "None"

(***************************************************************************)
(* Bounds of the model.                                                    *)
(***************************************************************************)
\* /load requests in one behaviour
MaxLoads == 3
\* /load requests in one behaviour that also serves completions
MaxStreamLoads == 2
\* responses one engine stream may produce before it ends or raises
MaxEngineTokens == 3

(***************************************************************************)
(* The active-model slot and /load.                                        *)
(***************************************************************************)
\* MLXModelManager.__init__: every slot field starts empty
NoSlot ==
    [ model |-> None, tokenizer |-> None, processor |-> None,
      image_processor |-> None, config |-> None,
      current_model_name |-> None, is_vision_model |-> FALSE ]

\* model identifiers a client may ask for
ModelNames == { "org/text-7b", "org/llava-7b" }
\* a truthy request value that is not a string
NonStringName == "<number>"
\* a string of more than 256 characters
LongName == "<257 chars>"
\* request.get("model"): a name, nothing (None), "" or an invalid value
LoadNames == ModelNames \cup { None, "", NonStringName, LongName }

MaxModelNameLength == 256

\* len(model_name)
NameLength(name) ==
    CASE name = "" -> 0
      [] name = "org/text-7b" -> 11
      [] name = "org/llava-7b" -> 12
      [] name = LongName -> 257
      [] OTHER -> 1

\* Python truthiness of the request's model value
Falsy(name) == name \in { None, "" }

\* mutant: the length of the name is not checked
InvalidModelName_AnyLength(name) == Falsy(name) \/ name = NonStringName

\* load_model's input validation: the ValueError cases
InvalidModelName(name) ==
    \/ Falsy(name)
    \/ name = NonStringName
    \/ NameLength(name) > MaxModelNameLength

\* mutant: the "already loaded" early return is missing
AlreadyLoaded_Never(s, name) == FALSE

\* load_model: if self.current_model_name == model_name: return
AlreadyLoaded(s, name) == s.current_model_name = name

\* what the local cache holds under model_path / name.replace("/", "_")
LocalStates == { "missing", "no_config", "no_weights", "valid" }
\* what the model's config.json says
ManifestKinds == { "text", "vision_key", "vlm_type", "corrupt" }

\* the config.json _is_vision_model finds under model_source: the cached
\* manifest for a local path; nothing for a hub identifier, which is not a
\* directory holding config.json
ConfigAt(fs, manifest) == IF fs = "missing" THEN "absent" ELSE manifest

\* _is_vision_model: an indicator key or a VLM model_type; any failure
\* to read the file counts as not a vision model
IsVisionConfig(config) == config \in { "vision_key", "vlm_type" }

\* how the underlying loader (load_vlm / load_config / get_model) behaves
LoaderOutcomes == { "ok", "raise", "model_none", "tokenizer_none", "config_raise" }

\* load_model's except block: the classified RuntimeError
ClassifyLoadError(msg) ==
    IF "not found" \in msg \/ "404" \in msg THEN "not_found"
    ELSE IF "connection" \in msg \/ "network" \in msg THEN "network"
    ELSE IF "memory" \in msg \/ "out of memory" \in msg THEN "memory"
    ELSE "other"

\* mutant: the cached directory is not validated
InvalidLocalDir_Never(fs) == FALSE

\* the local-cache validation raises (missing config.json, no weights)
InvalidLocalDir(fs) == fs \in { "no_config", "no_weights" }

\* the branch "if is_vlm and MLX_VLM_AVAILABLE"
UsesVlmLoader(is_vlm, vlm_available) == is_vlm /\ vlm_available

\* the slot as the try block leaves it, either at the statement that raises
\* or at its end (before current_model_name is assigned)
LoadAttempt(s, name, fs, vlm, outcome) ==
    IF InvalidLocalDir(fs) \/ outcome = "raise" THEN s
    ELSE LET m == IF outcome = "model_none" THEN None ELSE name
             t == IF outcome = "tokenizer_none" THEN None ELSE name
         IN  IF vlm
             THEN LET s1 == [ s EXCEPT !.model = m, !.processor = t,
                                       !.tokenizer = t ]
                  IN  IF outcome = "config_raise" THEN s1
                      ELSE [ s1 EXCEPT !.config = name,
                                       !.is_vision_model = TRUE,
                                       !.image_processor = t ]
             ELSE [ s EXCEPT !.model = m, !.tokenizer = t,
                             !.is_vision_model = FALSE, !.processor = None,
                             !.image_processor = None, !.config = None ]

\* whether the try block raises
LoadRaises(fs, vlm, outcome) ==
    \/ InvalidLocalDir(fs)
    \/ outcome \in { "raise", "model_none", "tokenizer_none" }
    \/ vlm /\ outcome = "config_raise"

\* whether the underlying loader is invoked
LoaderInvoked(fs) == ~InvalidLocalDir(fs)

\* the text of the exception the try block raises
LoadErrorText(fs, outcome, msg) ==
    IF ~InvalidLocalDir(fs) /\ outcome \in { "raise", "config_raise" }
    THEN msg ELSE {}

\* mutant: the cleanup forgets the model name
LoadFailureCleanup_KeepName(s) ==
    [ NoSlot EXCEPT !.current_model_name = s.current_model_name ]

\* mutant: the cleanup forgets the vision fields
LoadFailureCleanup_KeepVision(s) ==
    [ s EXCEPT !.model = None, !.tokenizer = None,
               !.current_model_name = None ]

\* load_model's except block: clean up if we partially loaded
LoadFailureCleanup(s) ==
    [ s EXCEPT !.model = None, !.tokenizer = None, !.processor = None,
               !.image_processor = None, !.config = None,
               !.current_model_name = None, !.is_vision_model = FALSE ]

\* mutant: a successful load does not record the model name
LoadSuccess_NoName(s, name) == s

\* load_model: self.current_model_name = model_name
LoadSuccess(s, name) == [ s EXCEPT !.current_model_name = name ]

\* load_model as a whole: the slot it leaves, how it ended, and whether the
\* underlying loader ran
load_model(s, name, fs, manifest, vlm_available, outcome, msg) ==
    LET is_vlm == IsVisionConfig(ConfigAt(fs, manifest))
        vlm == UsesVlmLoader(is_vlm, vlm_available)
        source == IF fs = "missing" THEN "remote" ELSE "local"
    IN  IF InvalidModelName(name)
        THEN [ slot |-> s, result |-> "invalid_name", error |-> "ValueError",
               loader |-> "none", source |-> "none", stage |-> "validate" ]
        ELSE IF AlreadyLoaded(s, name)
        THEN [ slot |-> s, result |-> "noop", error |-> None,
               loader |-> "none", source |-> "none", stage |-> "check" ]
        ELSE IF LoadRaises(fs, vlm, outcome)
        THEN [ slot |-> LoadFailureCleanup(LoadAttempt(s, name, fs, vlm, outcome)),
               result |-> "failed",
               error |-> ClassifyLoadError(LoadErrorText(fs, outcome, msg)),
               loader |-> IF ~LoaderInvoked(fs) THEN "none"
                          ELSE IF vlm THEN "vlm" ELSE "text",
               source |-> source,
               stage |-> IF InvalidLocalDir(fs) THEN fs ELSE outcome ]
        ELSE [ slot |-> LoadSuccess(LoadAttempt(s, name, fs, vlm, outcome), name),
               result |-> "loaded", error |-> None,
               loader |-> IF vlm THEN "vlm" ELSE "text",
               source |-> source, stage |-> "done" ]

\* load_endpoint: the HTTP status of the answer.  The 400 raised for a
\* missing name is raised inside the try block, whose "except Exception"
\* turns every exception into a 500.
LoadStatus(name, result) ==
    IF Falsy(name) THEN 500
    ELSE IF result \in { "loaded", "noop" } THEN 200 ELSE 500

\* the record of a /load request: the name asked for, how load_model ended,
\* the error class reported, the loader invoked and from where, the place
\* of the failure, the HTTP status, the slot before the request, and the
\* name, result and loader of the request before it
NoLoad ==
    [ name |-> None, result |-> "none", error |-> None, loader |-> "none",
      source |-> "none", cache |-> "none", stage |-> "none", status |-> 0,
      before |-> NoSlot,
      prev_name |-> None, prev_result |-> "none", prev_loader |-> "none" ]

(***************************************************************************)
(* Completion requests and their options.  Real-valued options are held   *)
(* in tenths (temperature 0.7 is 7), durations in clock ticks.            *)
(***************************************************************************)
\* the fields of the Options dataclass
KnownOptionFields ==
    { "temperature", "top_k", "top_p", "num_predict", "repeat_penalty",
      "repeat_last_n", "presence_penalty", "frequency_penalty", "num_ctx",
      "num_batch", "num_gpu", "main_gpu", "low_vram", "seed", "stop",
      "tfs_z", "typical_p", "mirostat", "mirostat_tau", "mirostat_eta" }

\* the defaults of the Options dataclass
OptionDefaults ==
    [ temperature |-> 7, top_k |-> 40, top_p |-> 9, num_predict |-> 16384,
      repeat_penalty |-> 11, repeat_last_n |-> 64, presence_penalty |-> 0,
      frequency_penalty |-> 0, num_ctx |-> 32768, num_batch |-> 512,
      num_gpu |-> -1, main_gpu |-> 0, low_vram |-> FALSE, seed |-> -1,
      stop |-> None, tfs_z |-> 10, typical_p |-> 10, mirostat |-> 0,
      mirostat_tau |-> 50, mirostat_eta |-> 1 ]

filtered_options_Nothing(supplied) == [ k \in {} |-> 0 ]

\* completion_endpoint: filtered_options, the supplied keys Options knows
filtered_options(supplied) ==
    [ k \in (DOMAIN supplied) \cap KnownOptionFields |-> supplied[k] ]

\* Options(**filtered_options): supplied values over the defaults
Options(filtered) ==
    [ k \in KnownOptionFields |->
        IF k \in DOMAIN filtered THEN filtered[k] ELSE OptionDefaults[k] ]

\* limits checked by generate()
MaxPromptChars == 8192
MaxTemperature == 20
MaxTopK == 1000
MaxTopP == 10
MaxNumPredict == 131072
MaxContextTokens == 131072

\* mutant: num_predict is not validated
ValidNumPredict_Any(num_predict) == TRUE

\* generate: 1 <= num_predict <= 131072
ValidNumPredict(num_predict) == 1 <= num_predict /\ num_predict <= MaxNumPredict

\* mutant: the prompt-length and temperature checks are missing
ValidationError_Lax(prompt_len, temperature, top_k, top_p, num_predict) ==
    IF prompt_len = 0 THEN "prompt"
    ELSE IF ~(0 <= top_k /\ top_k <= MaxTopK) THEN "top_k"
    ELSE IF ~(0 <= top_p /\ top_p <= MaxTopP) THEN "top_p"
    ELSE IF ~ValidNumPredict(num_predict) THEN "num_predict"
    ELSE None

\* generate's input validation: the ValueError it raises, or None
ValidationError(prompt_len, temperature, top_k, top_p, num_predict) ==
    IF prompt_len = 0 THEN "prompt"
    ELSE IF prompt_len > MaxPromptChars THEN "prompt_too_long"
    ELSE IF ~(0 <= temperature /\ temperature <= MaxTemperature) THEN "temperature"
    ELSE IF ~(0 <= top_k /\ top_k <= MaxTopK) THEN "top_k"
    ELSE IF ~(0 <= top_p /\ top_p <= MaxTopP) THEN "top_p"
    ELSE IF ~ValidNumPredict(num_predict) THEN "num_predict"
    ELSE None

\* generate: if self.model is None or self.tokenizer is None
NoModelLoaded(s) == s.model = None \/ s.tokenizer = None

\* _decode_images: the images that decode, none without PIL
DecodeImages(images, pil_available) ==
    IF images = << >> \/ ~pil_available THEN << >>
    ELSE SelectSeq(images, LAMBDA decodable : decodable)

\* generate: images given to a model that is not a vision model are dropped
UsableImages(decoded, s) ==
    IF decoded # << >> /\ ~s.is_vision_model THEN << >> ELSE decoded

\* generate: the condition that routes to _generate_with_vision
TakesVisionPath(s, decoded, vlm_available) ==
    s.is_vision_model /\ decoded # << >> /\ vlm_available

CompletionResponse_NoLogprobs ==
    [ content |-> << >>, done_reason |-> "", done |-> FALSE,
      prompt_eval_count |-> 0, prompt_eval_duration |-> 0, eval_count |-> 0,
      eval_duration |-> 0, tool_calls |-> [ found |-> FALSE, calls |-> << >> ] ]

\* the CompletionResponse dataclass with its defaults
CompletionResponse ==
    [ content |-> << >>, done_reason |-> "", done |-> FALSE,
      prompt_eval_count |-> 0, prompt_eval_duration |-> 0, eval_count |-> 0,
      eval_duration |-> 0, logprobs |-> None, tool_calls |-> [ found |-> FALSE, calls |-> << >> ] ]

\* generate's except block for the token loop: the classified message
ClassifyGenerationError(msg) ==
    IF "out of memory" \in msg THEN "Error: Out of memory during generation"
    ELSE IF "timeout" \in msg THEN "Error: Generation timed out"
    ELSE "Error: Generation failed"

\* mutant: an engine failure is reported as a normal end
ErrorEvent_Stop(text) ==
    [ CompletionResponse EXCEPT !.content = << text >>, !.done = TRUE,
                                !.done_reason = "stop" ]

\* a terminal event reporting an error
ErrorEvent(text) ==
    [ CompletionResponse EXCEPT !.content = << text >>, !.done = TRUE,
                                !.done_reason = "error" ]

\* a content event of the token loop
TokenEvent(text, n_prompt, since_start, count, since_token) ==
    [ CompletionResponse EXCEPT !.content = text, !.done = FALSE,
                                !.prompt_eval_count = n_prompt,
                                !.prompt_eval_duration = since_start,
                                !.eval_count = count,
                                !.eval_duration = since_token ]

\* mutant: the final response is not marked done
FinalEvent_NotDone(n_prompt, since_start, count, since_token) ==
    [ CompletionResponse EXCEPT !.content = << >>, !.done = FALSE,
                                !.done_reason = "stop",
                                !.prompt_eval_count = n_prompt,
                                !.prompt_eval_duration = since_start,
                                !.eval_count = count,
                                !.eval_duration = since_token ]

\* the final response of a generation that did not fail
FinalEvent(n_prompt, since_start, count, since_token) ==
    [ CompletionResponse EXCEPT !.content = << >>, !.done = TRUE,
                                !.done_reason = "stop",
                                !.prompt_eval_count = n_prompt,
                                !.prompt_eval_duration = since_start,
                                !.eval_count = count,
                                !.eval_duration = since_token ]

(***************************************************************************)
(* Tool-call extraction.  A text is a sequence of atoms, each a run of    *)
(* characters that is never split: a bracket, a colon, a comma, a quote,  *)
(* an escaped quote, a blank, or a word.  JSON values are tagged records. *)
(***************************************************************************)
Quote == "\""
EscQuote == "\\\""
Blank == " "
NumberAtoms == { "0", "1", "2" }
LiteralAtoms == { "null", "true", "false" }

Obj(f) == [ t |-> "obj", v |-> f ]
Arr(q) == [ t |-> "arr", v |-> q ]
Str(q) == [ t |-> "str", v |-> q ]
Num(a) == [ t |-> "num", v |-> a ]
Lit(a) == [ t |-> "lit", v |-> a ]
JNull == Lit("null")
EmptyMap == [ k \in {} |-> JNull ]

Fail == [ ok |-> FALSE ]
Ok(val, rest) == [ ok |-> TRUE, val |-> val, rest |-> rest ]

RECURSIVE SkipWs(_)
\* leading blanks removed
SkipWs(t) == IF t # << >> /\ Head(t) = Blank THEN SkipWs(Tail(t)) ELSE t

RECURSIVE SkipWsEnd(_)
\* trailing blanks removed
SkipWsEnd(t) ==
    IF t # << >> /\ t[Len(t)] = Blank
    THEN SkipWsEnd(SubSeq(t, 1, Len(t) - 1)) ELSE t

\* str.strip()
strip(t) == SkipWsEnd(SkipWs(t))

\* the lexical tokens of JSON: punctuation, a string (its content as a
\* text), a number, a literal, or something that is none of these
Tok(k, v) == [ k |-> k, v |-> v ]
Punctuation == { "{", "}", "[", "]", ":", "," }

RECURSIVE Lex(_, _, _, _)
\* the tokens of a text; in_string and cur hold the string literal being read
Lex(t, acc, in_string, cur) ==
    IF t = << >>
    THEN IF in_string THEN Append(acc, Tok("bad", "unterminated")) ELSE acc
    ELSE LET h == Head(t)
             step ==
                 IF in_string
                 THEN IF h = Quote
                      THEN [ acc |-> Append(acc, Tok("s", cur)), in |-> FALSE, cur |-> << >> ]
                      ELSE [ acc |-> acc, in |-> TRUE,
                             cur |-> Append(cur, IF h = EscQuote THEN Quote ELSE h) ]
                 ELSE IF h = Blank THEN [ acc |-> acc, in |-> FALSE, cur |-> << >> ]
                 ELSE IF h = Quote THEN [ acc |-> acc, in |-> TRUE, cur |-> << >> ]
                 ELSE [ acc |-> Append(acc,
                                       IF h \in Punctuation THEN Tok("p", h)
                                       ELSE IF h \in NumberAtoms THEN Tok("n", h)
                                       ELSE IF h \in LiteralAtoms THEN Tok("l", h)
                                       ELSE Tok("bad", h)),
                        in |-> FALSE, cur |-> << >> ]
         IN  Lex(Tail(t), step.acc, step.in, step.cur)

IsP(tk, c) == tk.k = "p" /\ tk.v = c

\* the value of a scalar token
Scalar(tk) ==
    IF tk.k = "s" THEN Str(tk.v) ELSE IF tk.k = "n" THEN Num(tk.v) ELSE Lit(tk.v)

\* a container being read: its kind, what it holds so far, the pending key
Frame(t, v, key) == [ t |-> t, v |-> v, key |-> key ]

\* a value is complete: it is the result, or goes into the open container
Complete(stack, val) ==
    IF stack = << >>
    THEN [ ok |-> TRUE, stack |-> << >>, st |-> "done", result |-> val ]
    ELSE LET top == stack[Len(stack)]
             rest == SubSeq(stack, 1, Len(stack) - 1)
             held == IF top.t = "arr" THEN Append(top.v, val)
                     ELSE [ x \in (DOMAIN top.v) \cup { top.key } |->
                              IF x = top.key THEN val ELSE top.v[x] ]
         IN  [ ok |-> TRUE, stack |-> Append(rest, Frame(top.t, held, << >>)),
               st |-> "comma_or_close", result |-> JNull ]

\* the open container is closed and becomes a complete value
Close(stack) ==
    LET top == stack[Len(stack)]
    IN  Complete(SubSeq(stack, 1, Len(stack) - 1),
                 IF top.t = "arr" THEN Arr(top.v) ELSE Obj(top.v))

Stuck == [ ok |-> FALSE, stack |-> << >>, st |-> "done", result |-> JNull ]

\* one step of the JSON parser on token tk
ParseStep(tk, stack, st) ==
    IF st \in { "value", "value_or_close" }
    THEN IF IsP(tk, "{")
         THEN [ ok |-> TRUE, stack |-> Append(stack, Frame("obj", EmptyMap, << >>)),
                st |-> "key_or_close", result |-> JNull ]
         ELSE IF IsP(tk, "[")
         THEN [ ok |-> TRUE, stack |-> Append(stack, Frame("arr", << >>, << >>)),
                st |-> "value_or_close", result |-> JNull ]
         ELSE IF IsP(tk, "]") /\ st = "value_or_close" THEN Close(stack)
         ELSE IF tk.k \in { "s", "n", "l" } THEN Complete(stack, Scalar(tk))
         ELSE Stuck
    ELSE IF st \in { "key_or_close", "key" }
    THEN IF tk.k = "s"
         THEN LET top == stack[Len(stack)]
              IN  [ ok |-> TRUE,
                    stack |-> Append(SubSeq(stack, 1, Len(stack) - 1),
                                     Frame(top.t, top.v, tk.v)),
                    st |-> "colon", result |-> JNull ]
         ELSE IF IsP(tk, "}") /\ st = "key_or_close" THEN Close(stack)
         ELSE Stuck
    ELSE IF st = "colon"
    THEN IF IsP(tk, ":")
         THEN [ ok |-> TRUE, stack |-> stack, st |-> "value", result |-> JNull ]
         ELSE Stuck
    ELSE IF st = "comma_or_close"
    THEN LET top == stack[Len(stack)]
         IN  IF IsP(tk, ",")
             THEN [ ok |-> TRUE, stack |-> stack,
                    st |-> IF top.t = "arr" THEN "value" ELSE "key",
                    result |-> JNull ]
             ELSE IF (top.t = "arr" /\ IsP(tk, "]")) \/ (top.t = "obj" /\ IsP(tk, "}"))
             THEN Close(stack)
             ELSE Stuck
    ELSE Stuck

RECURSIVE ParseTokens(_, _, _, _, _)
\* the JSON parser: exactly one value, nothing after it
ParseTokens(toks, i, stack, st, result) ==
    IF i > Len(toks)
    THEN IF st = "done" THEN [ ok |-> TRUE, val |-> result ] ELSE Fail
    ELSE LET next == ParseStep(toks[i], stack, st)
         IN  IF ~next.ok THEN Fail
             ELSE ParseTokens(toks, i + 1, next.stack, next.st, next.result)

\* json.loads
json_loads(t) == ParseTokens(Lex(t, << >>, FALSE, << >>), 1, << >>, "value", JNull)

Truthy_EmptyName(val) ==
    CASE val.t = "obj" -> DOMAIN val.v # {}
      [] val.t = "arr" -> val.v # << >>
      [] val.t = "str" -> TRUE
      [] val.t = "num" -> val.v # "0"
      [] OTHER -> val.v = "true"

\* Python truthiness of a JSON value
Truthy(val) ==
    CASE val.t = "obj" -> DOMAIN val.v # {}
      [] val.t = "arr" -> val.v # << >>
      [] val.t = "str" -> val.v # << >>
      [] val.t = "num" -> val.v # "0"
      [] OTHER -> val.v = "true"

\* dict.get(key, default)
Get(obj, key, default) ==
    IF << key >> \in DOMAIN obj THEN obj[<< key >>] ELSE default

\* f"call_{idx}"
CallId(idx) ==
    Str(<< "call_", CASE idx = 0 -> "0" [] idx = 1 -> "1" [] idx = 2 -> "2" [] OTHER -> "n" >>)

\* _parse_single_tool_call: "Ensure arguments is a dict"
CoerceArguments(arguments) ==
    IF arguments.t = "str"
    THEN LET parsed == json_loads(arguments.v)
         IN  IF parsed.ok THEN parsed.val
             ELSE Obj([ k \in { << "raw" >> } |-> arguments ])
    ELSE IF arguments.t # "obj" THEN Obj(EmptyMap)
    ELSE arguments

SingleKey_Never(c) == FALSE

\* _parse_single_tool_call: "elif len(call) == 1"
SingleKey(c) == Cardinality(DOMAIN c) = 1

\* _parse_single_tool_call: the normalized call, or nothing
parse_single_tool_call(call, idx) ==
    IF call.t # "obj" THEN Fail
    ELSE LET c == call.v
             na == IF << "function" >> \in DOMAIN c
                   THEN LET func == c[<< "function" >>]
                        IN  IF func.t = "obj"
                            THEN << Get(func.v, "name", JNull),
                                    Get(func.v, "arguments", Obj(EmptyMap)) >>
                            ELSE << JNull, Obj(EmptyMap) >>
                   ELSE IF << "name" >> \in DOMAIN c
                   THEN << Get(c, "name", JNull), Get(c, "arguments", Obj(EmptyMap)) >>
                   ELSE IF SingleKey(c)
                   THEN LET key == CHOOSE k \in DOMAIN c : TRUE
                        IN  IF c[key].t = "obj" THEN << Str(key), c[key] >>
                            ELSE << JNull, Obj(EmptyMap) >>
                   ELSE << JNull, Obj(EmptyMap) >>
         IN  IF ~Truthy(na[1]) THEN Fail
             ELSE [ ok |-> TRUE,
                    call |-> [ id |-> IF Truthy(Get(c, "id", JNull))
                                      THEN c[<< "id" >>] ELSE CallId(idx),
                               function |-> [ index |-> idx, name |-> na[1],
                                              arguments |-> CoerceArguments(na[2]) ] ] ]

RECURSIVE ScanCandidates(_, _, _, _, _)
\* parse_tool_calls: the bracket scan that collects json_candidates
ScanCandidates(text, i, depth, start, found) ==
    IF i > Len(text) THEN found
    ELSE IF text[i] \in { "{", "[" }
    THEN ScanCandidates(text, i + 1, depth + 1,
                        IF depth = 0 THEN i ELSE start, found)
    ELSE IF text[i] \in { "}", "]" }
    THEN IF depth - 1 = 0 /\ start >= 1
         THEN ScanCandidates(text, i + 1, depth - 1, 0,
                             Append(found, SubSeq(text, start, i)))
         ELSE ScanCandidates(text, i + 1, depth - 1, start, found)
    ELSE ScanCandidates(text, i + 1, depth, start, found)

\* parse_tool_calls: the candidates tried, the whole text when none is found
json_candidates(text) ==
    LET found == ScanCandidates(text, 1, 0, 0, << >>)
    IN  IF found = << >> THEN << text >> ELSE found

\* parse_tool_calls: the calls one candidate normalizes to
NormalizeCandidate(candidate) ==
    LET data == json_loads(candidate)
        each(calls) ==
            LET parsed == [ i \in 1..Len(calls) |-> parse_single_tool_call(calls[i], i - 1) ]
                kept == SelectSeq(parsed, LAMBDA p : p.ok)
            IN  [ i \in 1..Len(kept) |-> kept[i].call ]
    IN  IF ~data.ok THEN << >>
        ELSE IF data.val.t = "obj" /\ << "tool_calls" >> \in DOMAIN data.val.v
        THEN IF data.val.v[<< "tool_calls" >>].t = "arr"
             THEN each(data.val.v[<< "tool_calls" >>].v) ELSE << >>
        ELSE IF data.val.t = "arr" THEN each(data.val.v)
        ELSE IF data.val.t = "obj" THEN each(<< data.val >>)
        ELSE << >>

NoToolCalls == [ found |-> FALSE, calls |-> << >> ]

FirstNormalized_OnlyFirst(candidates, i) ==
    IF candidates = << >> THEN NoToolCalls
    ELSE [ found |-> NormalizeCandidate(candidates[1]) # << >>,
           calls |-> NormalizeCandidate(candidates[1]) ]

RECURSIVE FirstNormalized(_, _)
\* parse_tool_calls: the first candidate that yields calls wins
FirstNormalized(candidates, i) ==
    IF i > Len(candidates) THEN NoToolCalls
    ELSE LET normalized == NormalizeCandidate(candidates[i])
         IN  IF normalized # << >> THEN [ found |-> TRUE, calls |-> normalized ]
             ELSE FirstNormalized(candidates, i + 1)

\* parse_tool_calls(text): the normalized calls, or none
parse_tool_calls(text) == FirstNormalized(json_candidates(strip(text)), 1)

(***************************************************************************)
(* Embeddings: the pooling strategy and embed().                           *)
(***************************************************************************)
UpperCase ==
    << "A", "B", "C", "D", "E", "F", "G", "H", "I", "J", "K", "L", "M",
       "N", "O", "P", "Q", "R", "S", "T", "U", "V", "W", "X", "Y", "Z" >>
LowerCase ==
    << "a", "b", "c", "d", "e", "f", "g", "h", "i", "j", "k", "l", "m",
       "n", "o", "p", "q", "r", "s", "t", "u", "v", "w", "x", "y", "z" >>

\* str.lower() on a sequence of characters
lower(name) ==
    [ i \in 1..Len(name) |->
        IF \E k \in 1..26 : UpperCase[k] = name[i]
        THEN LowerCase[CHOOSE k \in 1..26 : UpperCase[k] = name[i]]
        ELSE name[i] ]

\* "pattern in text" on sequences of characters
Contains(text, pattern) ==
    \E i \in 1..(Len(text) - Len(pattern) + 1) :
        SubSeq(text, i, i + Len(pattern) - 1) = pattern

\* model identifiers for embedding models, and their characters
EmbedModelNames ==
    { "bert", "GPT2", "e5", "MiniLM", "sentence-t5", "instructor", "sentence-bert", "llama", "opt" }
Spell(name) ==
    CASE name = "bert" -> << "b", "e", "r", "t" >>
      [] name = "GPT2" -> << "G", "P", "T", "2" >>
      [] name = "e5" -> << "e", "5" >>
      [] name = "MiniLM" -> << "M", "i", "n", "i", "L", "M" >>
      [] name = "sentence-t5" -> << "s", "e", "n", "t", "e", "n", "c", "e", "-", "t", "5" >>
      [] name = "instructor" -> << "i", "n", "s", "t", "r", "u", "c", "t", "o", "r" >>
      [] name = "sentence-bert" -> << "s", "e", "n", "t", "e", "n", "c", "e", "-", "b", "e", "r", "t" >>
      [] name = "llama" -> << "l", "l", "a", "m", "a" >>
      [] name = "opt" -> << "o", "p", "t" >>
      [] OTHER -> << >>

BertFamilies == { << "b", "e", "r", "t" >>, << "r", "o", "b", "e", "r", "t", "a" >>, << "d", "i", "s", "t", "i", "l", "b", "e", "r", "t" >>, << "e", "l", "e", "c", "t", "r", "a" >> }
GptFamilies == { << "g", "p", "t" >>, << "b", "l", "o", "o", "m" >>, << "o", "p", "t" >> }
E5Families == { << "e", "5" >>, << "b", "g", "e" >>, << "g", "t", "e" >> }
SentenceFamilies == { << "s", "e", "n", "t", "e", "n", "c", "e" >>, << "i", "n", "s", "t", "r", "u", "c", "t", "o", "r" >>, << "m", "i", "n", "i", "l", "m" >> }

AnyIn(families, model_name) == \E f \in families : Contains(model_name, f)

\* _detect_embedding_strategy, on the characters of current_model_name
\* ("" when there is none)
detect_embedding_strategy(current_model_name) ==
    LET model_name == lower(current_model_name)
    IN  IF AnyIn(BertFamilies, model_name) THEN "cls"
        ELSE IF AnyIn(GptFamilies, model_name) THEN "last_token"
        ELSE IF AnyIn(E5Families, model_name) THEN "cls"
        ELSE IF AnyIn(SentenceFamilies, model_name) THEN "mean_no_special"
        ELSE "mean_no_special"

\* the dimension of the hidden states, and the values a component takes
HiddenDim == 2
HiddenValues == { 0, 1, 2 }
\* the hidden state of a position is never the zero vector
HiddenVectors ==
    { v \in [ 1..HiddenDim -> HiddenValues ] : \E d \in 1..HiddenDim : v[d] # 0 }
\* token ids, and the ids the tokenizer may declare special
TokenIds == { 0, 1, 2 }
SpecialIdSets == { {}, { 0 }, { 0, 1 } }
\* tokens in one text
MaxTextTokens == 2

RECURSIVE SumOver(_, _)
\* the sum of the hidden states at the positions kept
SumOver(hidden, keep) ==
    IF keep = {} THEN [ d \in 1..HiddenDim |-> 0 ]
    ELSE LET i == CHOOSE k \in keep : TRUE
             rest == SumOver(hidden, keep \ { i })
         IN  [ d \in 1..HiddenDim |-> hidden[i][d] + rest[d] ]

\* a pooled vector as whole numbers over a common divisor
Over(num, den) == [ num |-> num, den |-> den ]

\* embed: the strategy-specific pooling
Pool(strategy, token_list, hidden, special_ids) ==
    LET all == 1..Len(hidden)
        kept == { i \in all : token_list[i] \notin special_ids }
    IN  IF strategy = "cls" THEN Over(hidden[1], 1)
        ELSE IF strategy = "last_token" THEN Over(hidden[Len(hidden)], 1)
        ELSE IF strategy = "mean_no_special" /\ special_ids # {}
        THEN \* sum_mask is floored at 1e-9: the sum over no position is zero
             IF kept = {} THEN Over(SumOver(hidden, {}), 1)
             ELSE Over(SumOver(hidden, kept), Cardinality(kept))
        ELSE Over(SumOver(hidden, all), Len(hidden))

RECURSIVE Total(_, _)
\* the sum of the first d components
Total(v, d) == IF d = 0 THEN 0 ELSE v[d] + Total(v, d - 1)

\* the sum of the squares of the numerators
SumSquares(num) == Total([ d \in 1..HiddenDim |-> num[d] * num[d] ], HiddenDim)

\* embed: embedding / max(norm, 1e-12). The hidden states are whole numbers,
\* so a norm that is not zero is at least 1 / den and lies above the floor:
\* the vector is then num / sqrt(SumSquares(num)); a zero vector is divided
\* by the floor and stays zero. norm_squared is the squared L2 norm of what
\* is returned.
Normalize(pooled) ==
    [ direction |-> pooled.num,
      norm_squared |-> IF SumSquares(pooled.num) = 0 THEN 0 ELSE 1 ]

\* embed(text): the returned vector, or the exception raised
embed(s, text_empty, token_list, hidden, special_ids) ==
    IF NoModelLoaded(s) THEN [ raised |-> "RuntimeError" ]
    ELSE IF text_empty THEN [ raised |-> "ValueError" ]
    ELSE LET strategy == detect_embedding_strategy(Spell(s.current_model_name))
         IN  [ raised |-> None, strategy |-> strategy,
               vector |-> Normalize(Pool(strategy, token_list, hidden, special_ids)) ]

(***************************************************************************)
(* State machine.                                                          *)
(***************************************************************************)
\* a text the engine may produce as one token: a word, or a tool call
ToolCallText == << "{", Quote, "f", Quote, ":", "{", "}", "}" >>
TokenTexts == { << "a" >>, ToolCallText }

EmptyOptions == [ k \in {} |-> 0 ]

NoRequest ==
    [ prompt_len |-> 0, has_image_tag |-> FALSE, images |-> << >>,
      tools_present |-> FALSE, options |-> EmptyOptions ]

\* the fields of the CompletionRequest dataclass, as requests are held here
RequestFields == DOMAIN NoRequest

\* parse_completion_request: the body's known fields
parse_completion_request(data) ==
    [ k \in (DOMAIN data) \cap RequestFields |-> data[k] ]

(***************************************************************************)
(* The process environment and the manager's constructor.  A path or an   *)
(* environment value is the sequence of its segments between separators;  *)
(* a variable is << >> when unset and << value >> when set.               *)
(***************************************************************************)
Root == "/"
Tilde == "~"
Home == << Root, "home", "u" >>
default_base_path == Home \o << ".ollmlx", "models" >>

\* os.environ.get(key) is truthy: the variable is set and not empty
EnvTruthy(env, key) == env[key] # << >> /\ env[key][1] # << >>

\* Path(text): a trailing separator leaves an empty last segment, which a
\* Path does not keep
RECURSIVE DropTrailing(_)
DropTrailing(text) ==
    IF Len(text) > 1 /\ text[Len(text)] = ""
    THEN DropTrailing(SubSeq(text, 1, Len(text) - 1))
    ELSE text

expanduser_Literal(path) == path

\* Path.expanduser(): a leading ~ segment becomes the home directory
expanduser(path) ==
    IF path # << >> /\ Head(path) = Tilde THEN Home \o Tail(path) ELSE path

\* MLXModelManager.__init__: base_path
base_path(env) ==
    IF EnvTruthy(env, "OLLAMA_MODELS")
    THEN expanduser(DropTrailing(env["OLLAMA_MODELS"][1]))
    ELSE default_base_path

\* MLXModelManager.__init__: the variable after the constructor's setdefault
CacheVariable(env, key, root) ==
    IF EnvTruthy(env, key) THEN env[key] ELSE << root >>

\* os.environ when the server module is imported, and the environment the
\* import of the module leaves
LaunchEnviron ==
    [ OLLAMA_MODELS |-> << >>, HUGGINGFACE_HUB_CACHE |-> << >>, HF_HOME |-> << >> ]

\* the import outcomes a process can start with
Environments ==
    { [ vlm |-> FALSE, pil |-> TRUE, streams |-> FALSE ],
      [ vlm |-> TRUE, pil |-> TRUE, streams |-> TRUE ],
      [ vlm |-> TRUE, pil |-> TRUE, streams |-> FALSE ],
      [ vlm |-> TRUE, pil |-> FALSE, streams |-> TRUE ] }

\* the per-request state before a request arrives
GenInit ==
    /\ pc = "idle"
    /\ req = NoRequest
    /\ decoded_images = << >>
    /\ prompt_tokens = 0
    /\ token_count = 0
    /\ max_tokens_generated = 0
    /\ produced = 0
    /\ eval_start = 0
    /\ events = << >>
    /\ sent = << >>
    /\ escaped = None
    /\ engineCalls = << >>
    /\ engineFailedAt = -1
    /\ warnings = {}
    /\ slotAtStart = NoSlot

Init ==
    /\ model_manager = NoSlot
    /\ \E e \in Environments :
        /\ MLX_VLM_AVAILABLE = e.vlm
        /\ PIL_AVAILABLE = e.pil
        /\ vlm_streams = e.streams
    /\ loadSeq = 0
    /\ lastLoad = NoLoad
    /\ GenInit
    /\ embed_in = << >>
    /\ embed_out = << >>
    /\ loading = << >>
    /\ health = << >>
    /\ other = "idle"
    /\ gone = << >>
    /\ model_path = base_path(LaunchEnviron)
    /\ environ = [ LaunchEnviron EXCEPT
                     !.HUGGINGFACE_HUB_CACHE =
                         CacheVariable(LaunchEnviron, "HUGGINGFACE_HUB_CACHE",
                                       base_path(LaunchEnviron)),
                     !.HF_HOME =
                         CacheVariable(LaunchEnviron, "HF_HOME",
                                       base_path(LaunchEnviron)) ]
    /\ built = << >>

\* the completion handler is parked at a suspension point of the event
\* loop, so another handler may run: no request, the response not yet
\* started, or a streamed record handed to the transport
Suspended ==
    \/ pc \in { "idle", "ready" }
    \/ ~req.tools_present /\ pc \in { "resume", "vresume", "vfallback_resume", "finishing" }

\* completion_endpoint: options = Options(**filtered_options)
options == Options(filtered_options(req.options))

\* the model's clock: one tick per engine call and per engine response
Now == Len(engineCalls) + produced

\* POST /load: load_endpoint and load_model
Load(name, fs, manifest, outcome, msg) ==
    /\ Suspended
    /\ loadSeq < MaxLoads
    /\ LET r == load_model(model_manager, name, fs, manifest,
                           MLX_VLM_AVAILABLE, outcome, msg)
           result == IF Falsy(name) THEN "missing_name" ELSE r.result
       IN  /\ model_manager' = r.slot
           /\ lastLoad' = [ name |-> name, result |-> result, error |-> r.error,
                            loader |-> r.loader, source |-> r.source,
                            cache |-> IF r.source = "none" THEN "none" ELSE fs,
                            stage |-> r.stage,
                            status |-> LoadStatus(name, r.result),
                            before |-> model_manager,
                            prev_name |-> lastLoad.name,
                            prev_result |-> lastLoad.result,
                            prev_loader |-> lastLoad.loader ]
    /\ loadSeq' = loadSeq + 1
    /\ UNCHANGED << envVars, embedVars, serveVars, genVars >>

\* mutant: the empty-prompt short circuit is missing
EmptyPrompt_Never(r) == FALSE

\* completion_endpoint: if not req.prompt
EmptyPrompt(r) == r.prompt_len = 0

\* POST /completion up to the StreamingResponse: parse the request; an empty
\* prompt is answered with a single terminal record
Submit(r) ==
    /\ pc = "idle"
    /\ req' = parse_completion_request(r)
    /\ IF EmptyPrompt(r)
       THEN /\ sent' = << [ CompletionResponse EXCEPT !.done = TRUE,
                                                      !.done_reason = "stop" ] >>
            /\ pc' = "closed"
       ELSE /\ sent' = << >>
            /\ pc' = "ready"
    /\ UNCHANGED << envVars, embedVars, serveVars, loadVars,
                    decoded_images, prompt_tokens,
                    token_count, max_tokens_generated, produced, eval_start,
                    events, escaped, engineCalls, engineFailedAt, warnings,
                    slotAtStart >>

\* the response is complete (or broken off) and the handler's state is dropped
DropRequest ==
    /\ pc' = "idle"
    /\ req' = NoRequest
    /\ decoded_images' = << >>
    /\ prompt_tokens' = 0
    /\ token_count' = 0
    /\ max_tokens_generated' = 0
    /\ produced' = 0
    /\ eval_start' = 0
    /\ events' = << >>
    /\ sent' = << >>
    /\ escaped' = None
    /\ engineCalls' = << >>
    /\ engineFailedAt' = -1
    /\ warnings' = {}
    /\ slotAtStart' = NoSlot

Recycle ==
    /\ pc = "closed"
    /\ DropRequest
    /\ UNCHANGED << envVars, embedVars, serveVars, loadVars >>

\* mutant: the streaming response drops the record
Yield_NoForward(ev, next_pc) ==
    /\ events' = Append(events, ev)
    /\ sent' = sent
    /\ pc' = next_pc

\* mutant: the buffered response writes every event through as well
Yield_ForwardAlways(ev, next_pc) ==
    /\ events' = Append(events, ev)
    /\ sent' = Append(sent, ev)
    /\ pc' = next_pc

\* generate() yields ev: the streaming response writes it as one record, the
\* buffered response keeps it (collected, last_chunk) until the end
Yield(ev, next_pc) ==
    /\ events' = Append(events, ev)
    /\ sent' = IF req.tools_present THEN sent ELSE Append(sent, ev)
    /\ pc' = next_pc

\* generate(): input validation, the model check, image decoding and routing
GenValidate ==
    /\ pc = "ready"
    /\ LET err == ValidationError(req.prompt_len, options.temperature,
                                  options.top_k, options.top_p,
                                  options.num_predict)
           decoded == DecodeImages(req.images, PIL_AVAILABLE)
           usable == UsableImages(decoded, model_manager)
       IN  IF err # None
           THEN /\ escaped' = "ValueError"
                /\ pc' = "closed"
                /\ UNCHANGED << decoded_images, warnings, slotAtStart >>
           ELSE IF NoModelLoaded(model_manager)
           THEN /\ escaped' = "RuntimeError"
                /\ pc' = "closed"
                /\ UNCHANGED << decoded_images, warnings, slotAtStart >>
           ELSE /\ decoded_images' = usable
                /\ warnings' = IF usable # decoded
                               THEN warnings \cup { "images ignored" }
                               ELSE warnings
                /\ slotAtStart' = model_manager
                /\ pc' = IF TakesVisionPath(model_manager, usable, MLX_VLM_AVAILABLE)
                         THEN "vision" ELSE "tokenize"
                /\ UNCHANGED escaped
    /\ UNCHANGED << envVars, embedVars, serveVars, loadVars, req, prompt_tokens, token_count,
                    max_tokens_generated, produced, eval_start, events, sent,
                    engineCalls, engineFailedAt >>

\* how many tokens the tokenizer may return for a prompt
PromptTokenCounts == { 4, MaxContextTokens + 1 }
\* the texts a failing engine call may carry
GenErrorTexts == { {}, {"out of memory"}, {"timeout"} }

\* generate's outer except block: the failure becomes a terminal event
OuterError(text) == Yield(ErrorEvent(text), "finishing")

\* generate(): self.tokenizer.encode(prompt) and the context-length check
Tokenize(n, raises) ==
    /\ pc = "tokenize"
    /\ engineCalls' = Append(engineCalls, [ fn |-> "tokenize" ])
    /\ IF raises \/ n > MaxContextTokens
       THEN /\ OuterError("Error: Failed to tokenize prompt")
            /\ engineFailedAt' = IF raises THEN Len(events) ELSE engineFailedAt
            /\ UNCHANGED prompt_tokens
       ELSE /\ prompt_tokens' = n
            /\ pc' = "sampler"
            /\ UNCHANGED << events, sent, engineFailedAt >>
    /\ UNCHANGED << envVars, embedVars, serveVars, loadVars, req, decoded_images, token_count,
                    max_tokens_generated, produced, eval_start, escaped,
                    warnings, slotAtStart >>

\* generate(): make_sampler(...) and the call of mlx_lm.stream_generate(...)
Sampler(raises) ==
    /\ pc = "sampler"
    /\ LET call == [ fn |-> "make_sampler", temp |-> options.temperature,
                     top_p |-> options.top_p, top_k |-> options.top_k ]
           stream == [ fn |-> "stream_generate", model |-> model_manager.model,
                       tokenizer |-> model_manager.tokenizer,
                       max_tokens |-> options.num_predict ]
       IN  IF raises
           THEN /\ engineCalls' = Append(engineCalls, call)
                /\ OuterError("Error: Failed to create sampler")
                /\ engineFailedAt' = Len(events)
                /\ UNCHANGED eval_start
           ELSE /\ engineCalls' = engineCalls \o << call, stream >>
                /\ pc' = "stream"
                /\ eval_start' = 0
                /\ UNCHANGED << events, sent, engineFailedAt >>
    /\ UNCHANGED << envVars, embedVars, serveVars, loadVars, req,
                    decoded_images, prompt_tokens,
                    token_count, max_tokens_generated, produced, escaped,
                    warnings, slotAtStart >>

\* mutant: the token loop never notices that num_predict is reached
ReachedNumPredict_Never(count, num_predict) == FALSE

\* generate(): if token_count >= num_predict: break
ReachedNumPredict(count, num_predict) == count >= num_predict

\* generate(): the safety check max_tokens_generated > num_predict * 2
Runaway(generated, num_predict) == generated > num_predict * 2

\* the token loop: the engine produces a response that has a text
StreamText(text) ==
    /\ pc = "stream"
    /\ produced < MaxEngineTokens
    /\ produced' = produced + 1
    /\ token_count' = token_count + 1
    /\ max_tokens_generated' = max_tokens_generated + 1
    /\ LET now == Now + 1
       IN  IF Runaway(max_tokens_generated + 1, options.num_predict)
           THEN /\ warnings' = warnings \cup { "generated more tokens than requested" }
                /\ Yield(FinalEvent(prompt_tokens, now, token_count + 1,
                                    now - eval_start), "finishing")
                /\ UNCHANGED eval_start
           ELSE /\ Yield(TokenEvent(text, prompt_tokens, now, token_count + 1,
                                    now - eval_start), "resume")
                /\ eval_start' = now
                /\ UNCHANGED warnings
    /\ UNCHANGED << envVars, embedVars, serveVars, loadVars, req,
                    decoded_images, prompt_tokens,
                    escaped, engineCalls, engineFailedAt, slotAtStart >>

\* the token loop: the engine produces a response without a text attribute
StreamNoText ==
    /\ pc = "stream"
    /\ produced < MaxEngineTokens
    /\ produced' = produced + 1
    /\ UNCHANGED << envVars, embedVars, serveVars, loadVars, pc, req,
                    decoded_images, prompt_tokens,
                    token_count, max_tokens_generated, eval_start, events,
                    sent, escaped, engineCalls, engineFailedAt, warnings,
                    slotAtStart >>

\* the token loop ends because the engine's stream is exhausted
StreamEnd ==
    /\ pc = "stream"
    /\ Yield(FinalEvent(prompt_tokens, Now, token_count, Now - eval_start),
             "finishing")
    /\ UNCHANGED << envVars, embedVars, serveVars, loadVars, req,
                    decoded_images, prompt_tokens,
                    token_count, max_tokens_generated, produced, eval_start,
                    escaped, engineCalls, engineFailedAt, warnings,
                    slotAtStart >>

\* the token loop: the engine raises; the inner except block yields the
\* classified error and returns
StreamRaise(msg) ==
    /\ pc = "stream"
    /\ Yield(ErrorEvent(ClassifyGenerationError(msg)), "finishing")
    /\ engineFailedAt' = Len(events)
    /\ UNCHANGED << envVars, embedVars, serveVars, loadVars, req,
                    decoded_images, prompt_tokens,
                    token_count, max_tokens_generated, produced, eval_start,
                    escaped, engineCalls, warnings, slotAtStart >>

\* the token loop resumes after a yield: stop when num_predict is reached
StreamResume ==
    /\ pc = "resume"
    /\ IF ReachedNumPredict(token_count, options.num_predict)
       THEN Yield(FinalEvent(prompt_tokens, Now, token_count, Now - eval_start),
                  "finishing")
       ELSE /\ pc' = "stream"
            /\ UNCHANGED << events, sent >>
    /\ UNCHANGED << envVars, embedVars, serveVars, loadVars, req,
                    decoded_images, prompt_tokens,
                    token_count, max_tokens_generated, produced, eval_start,
                    escaped, engineCalls, engineFailedAt, warnings,
                    slotAtStart >>

RECURSIVE WordCount(_, _)
\* len(output.split()): the runs of non-blank atoms in a text
WordCount(text, in_word) ==
    IF text = << >> THEN 0
    ELSE IF Head(text) = Blank THEN WordCount(Tail(text), FALSE)
    ELSE (IF in_word THEN 0 ELSE 1) + WordCount(Tail(text), TRUE)

\* what the non-streaming vlm generate may return
FallbackOutputs == { << >>, << "a" >>, << "a", Blank, "a" >> }

\* images[0]: the position in the request of the first image that decoded
RECURSIVE FirstDecodable(_, _)
FirstDecodable(images, i) ==
    IF i > Len(images) THEN 0
    ELSE IF images[i] THEN i ELSE FirstDecodable(images, i + 1)

\* _generate_with_vision up to the engine call: the import of the generate
\* function, the image placeholder, the chat template
VisionSetup(import_ok, has_template, template_ok) ==
    /\ pc = "vision"
    /\ IF ~MLX_VLM_AVAILABLE
       THEN /\ Yield(ErrorEvent("Error: mlx-vlm is not installed"), "finishing")
            /\ UNCHANGED << engineCalls, engineFailedAt >>
       ELSE IF ~import_ok
       THEN /\ OuterError("Error: import failed")
            /\ engineFailedAt' = Len(events)
            /\ UNCHANGED engineCalls
       ELSE LET formatted == [ placeholder_added |-> ~req.has_image_tag,
                               templated |-> has_template /\ template_ok ]
                template == IF has_template
                            THEN << [ fn |-> "apply_chat_template" ] >> ELSE << >>
                stream == IF vlm_streams
                          THEN << [ fn |-> "vlm.stream_generate",
                                    model |-> model_manager.model,
                                    processor |-> model_manager.processor,
                                    prompt |-> formatted,
                                    image |-> FirstDecodable(req.images, 1),
                                    max_tokens |-> options.num_predict,
                                    temp |-> options.temperature ] >>
                          ELSE << >>
            IN  /\ engineCalls' = engineCalls \o template \o stream
                /\ pc' = IF vlm_streams THEN "vstream" ELSE "vfallback"
                /\ UNCHANGED << events, sent, engineFailedAt >>
    /\ UNCHANGED << envVars, embedVars, serveVars, loadVars, req,
                    decoded_images, prompt_tokens,
                    token_count, max_tokens_generated, produced, eval_start,
                    escaped, warnings, slotAtStart >>

\* the vision token loop: the engine produces a response; one without a
\* text attribute is rendered with str()
VisionText(text, has_text) ==
    /\ pc = "vstream"
    /\ produced < MaxEngineTokens
    /\ produced' = produced + 1
    /\ token_count' = token_count + 1
    /\ LET now == Now + 1
       IN  /\ Yield(TokenEvent(IF has_text THEN text ELSE << "<response>" >>,
                               0, now, token_count + 1, now - eval_start),
                    "vresume")
           /\ eval_start' = now
    /\ UNCHANGED << envVars, embedVars, serveVars, loadVars, req,
                    decoded_images, prompt_tokens,
                    max_tokens_generated, escaped, engineCalls,
                    engineFailedAt, warnings, slotAtStart >>

\* the vision token loop ends because the engine's stream is exhausted
VisionEnd ==
    /\ pc = "vstream"
    /\ Yield(FinalEvent(0, Now, token_count, Now - eval_start), "finishing")
    /\ UNCHANGED << envVars, embedVars, serveVars, loadVars, req,
                    decoded_images, prompt_tokens,
                    token_count, max_tokens_generated, produced, eval_start,
                    escaped, engineCalls, engineFailedAt, warnings,
                    slotAtStart >>

\* the vision engine raises, in the token loop or in the fallback call
VisionRaise ==
    /\ pc \in { "vstream", "vfallback" }
    /\ Yield(ErrorEvent("Error: Vision generation failed"), "finishing")
    /\ engineFailedAt' = Len(events)
    /\ engineCalls' = IF pc = "vfallback"
                      THEN Append(engineCalls, [ fn |-> "vlm.generate" ])
                      ELSE engineCalls
    /\ UNCHANGED << envVars, embedVars, serveVars, loadVars, req,
                    decoded_images, prompt_tokens,
                    token_count, max_tokens_generated, produced, eval_start,
                    escaped, warnings, slotAtStart >>

\* the vision token loop resumes after a yield
VisionResume ==
    /\ pc = "vresume"
    /\ IF ReachedNumPredict(token_count, options.num_predict)
       THEN Yield(FinalEvent(0, Now, token_count, Now - eval_start), "finishing")
       ELSE /\ pc' = "vstream"
            /\ UNCHANGED << events, sent >>
    /\ UNCHANGED << envVars, embedVars, serveVars, loadVars, req,
                    decoded_images, prompt_tokens,
                    token_count, max_tokens_generated, produced, eval_start,
                    escaped, engineCalls, engineFailedAt, warnings,
                    slotAtStart >>

\* mlx_vlm without stream_generate: one call returns the whole output, which
\* is yielded as a single content event
VisionFallback(output) ==
    /\ pc = "vfallback"
    /\ engineCalls' = Append(engineCalls,
                             [ fn |-> "vlm.generate",
                               max_tokens |-> options.num_predict,
                               temp |-> options.temperature ])
    /\ produced' = produced + 1
    /\ token_count' = WordCount(output, FALSE)
    /\ LET now == Now + 2
       IN  Yield(TokenEvent(output, 0, now, WordCount(output, FALSE),
                            now - eval_start), "vfallback_resume")
    /\ UNCHANGED << envVars, embedVars, serveVars, loadVars, req,
                    decoded_images, prompt_tokens,
                    max_tokens_generated, eval_start, escaped, engineFailedAt,
                    warnings, slotAtStart >>

\* after the fallback's single content event: the final response
VisionFallbackResume ==
    /\ pc = "vfallback_resume"
    /\ Yield(FinalEvent(0, Now, token_count, Now - eval_start), "finishing")
    /\ UNCHANGED << envVars, embedVars, serveVars, loadVars, req,
                    decoded_images, prompt_tokens,
                    token_count, max_tokens_generated, produced, eval_start,
                    escaped, engineCalls, engineFailedAt, warnings,
                    slotAtStart >>

RECURSIVE Join(_)
\* "".join(collected)
Join(texts) == IF texts = << >> THEN << >> ELSE Head(texts) \o Join(Tail(texts))

\* mutant: the buffered response always reports a plain completion
FinalReason_AlwaysStop(last, tool_calls) == "stop"

\* response_generator: final.done_reason = "tool_calls" if tool_calls else "stop"
FinalReason(last, tool_calls) == IF tool_calls.found THEN "tool_calls" ELSE "stop"

\* response_generator, tools present: the single record built from the
\* collected contents and the last chunk
BufferedFinal(evs) ==
    LET collected == [ i \in 1..Len(evs) |-> evs[i].content ]
        last_chunk == IF evs = << >> THEN CompletionResponse ELSE evs[Len(evs)]
        combined == strip(Join(collected))
        tool_calls == parse_tool_calls(combined)
    IN  [ last_chunk EXCEPT !.content = combined, !.done = TRUE,
                            !.done_reason = FinalReason(last_chunk, tool_calls),
                            !.tool_calls = tool_calls ]

\* generate() returns after its terminal event; the streaming response ends
FinishStream ==
    /\ pc = "finishing"
    /\ ~req.tools_present
    /\ pc' = "closed"
    /\ UNCHANGED << envVars, embedVars, serveVars, loadVars, req,
                    decoded_images, prompt_tokens,
                    token_count, max_tokens_generated, produced, eval_start,
                    events, sent, escaped, engineCalls, engineFailedAt,
                    warnings, slotAtStart >>

\* generate() returns after its terminal event; the buffered response
\* extracts the tool calls and writes its single record
FinishBuffered ==
    /\ pc = "finishing"
    /\ req.tools_present
    /\ sent' = << BufferedFinal(events) >>
    /\ pc' = "closed"
    /\ UNCHANGED << envVars, embedVars, serveVars, loadVars, req,
                    decoded_images, prompt_tokens,
                    token_count, max_tokens_generated, produced, eval_start,
                    events, escaped, engineCalls, engineFailedAt, warnings,
                    slotAtStart >>

\* the steps of generate() on the text path
GenerateText ==
    \/ \E n \in PromptTokenCounts, raises \in BOOLEAN : Tokenize(n, raises)
    \/ \E raises \in BOOLEAN : Sampler(raises)
    \/ \E text \in TokenTexts : StreamText(text)
    \/ StreamNoText
    \/ StreamEnd
    \/ \E msg \in GenErrorTexts : StreamRaise(msg)
    \/ StreamResume

\* the steps of _generate_with_vision
GenerateVision ==
    \/ \E i, h, t \in BOOLEAN : VisionSetup(i, h, t)
    \/ \E text \in TokenTexts, has_text \in BOOLEAN : VisionText(text, has_text)
    \/ VisionEnd
    \/ VisionRaise
    \/ VisionResume
    \/ \E output \in FallbackOutputs : VisionFallback(output)
    \/ VisionFallbackResume

(***************************************************************************)
(* Spec: the server handling /load requests and one /completion request   *)
(* at a time, the two interleaved at the completion's suspension points.  *)
(***************************************************************************)
\* a completion request
Request(prompt_len, images, tools_present, supplied) ==
    [ prompt_len |-> prompt_len, has_image_tag |-> FALSE, images |-> images,
      tools_present |-> tools_present, options |-> supplied ]

\* the requests clients send in this specification
SmallRequests ==
    { Request(0, << >>, FALSE, EmptyOptions),
      Request(MaxPromptChars + 1, << >>, FALSE, EmptyOptions),
      Request(5, << >>, FALSE, EmptyOptions),
      Request(5, << >>, TRUE, EmptyOptions),
      Request(5, << >>, FALSE, "num_predict" :> 1),
      Request(5, << >>, TRUE, "num_predict" :> 1),
      Request(5, << FALSE, TRUE >>, FALSE, EmptyOptions),
      Request(5, << FALSE, TRUE >>, TRUE, "num_predict" :> 1),
      Request(5, << >>, FALSE, "num_predict" :> -1),
      Request(5, << >>, TRUE, "temperature" :> 21),
      Request(0, << >>, TRUE, "num_predict" :> -1),
      Request(0, << FALSE, TRUE >>, FALSE, "temperature" :> 21) }

\* the /load requests clients send in this specification
SmallLoad ==
    /\ loadSeq < MaxStreamLoads
    /\ \E name \in ModelNames, manifest \in { "text", "vision_key" },
          outcome \in { "ok", "raise" } :
           Load(name, "valid", manifest, outcome, {})

Next ==
    \/ SmallLoad
    \/ \E r \in SmallRequests : Submit(r)
    \/ GenValidate
    \/ GenerateText
    \/ GenerateVision
    \/ FinishStream
    \/ FinishBuffered
    \/ Recycle

Spec == Init /\ [][Next]_vars

(***************************************************************************)
(* SpecLoad: the model lifecycle alone, /load requests of every kind.     *)
(***************************************************************************)
\* the exception texts loaders raise in this specification
LoadErrorTexts ==
    { {}, {"not found"}, {"404"}, {"connection"}, {"memory"}, {"network", "memory"} }

\* a /load request whose name is missing or invalid
BadNameLoad ==
    \E name \in LoadNames \ ModelNames : Load(name, "missing", "text", "ok", {})

\* a /load request for a model name, with every cache state, manifest and
\* loader behaviour
FullLoad ==
    \E name \in ModelNames, fs \in LocalStates, manifest \in ManifestKinds,
       outcome \in LoaderOutcomes :
        \E msg \in (IF outcome \in { "raise", "config_raise" }
                    THEN LoadErrorTexts ELSE { {} }) :
            Load(name, fs, manifest, outcome, msg)

NextLoad ==
    \/ BadNameLoad
    \/ FullLoad

SpecLoad == Init /\ [][NextLoad]_vars

(***************************************************************************)
(* SpecResolve: loads of a text model and of a vision-language model,     *)
(* each with the manifest it is published with, from the local cache or   *)
(* from the hub.                                                           *)
(***************************************************************************)
\* the manifests a model is published with: the llava model's carries an
\* indicator key or a VLM model_type
ManifestsOf(name) ==
    IF name = "org/llava-7b" THEN { "vision_key", "vlm_type" } ELSE { "text" }

\* a /load of a model that is cached or not
ResolveLoad ==
    \E name \in ModelNames, fs \in { "missing", "valid" },
       outcome \in LoaderOutcomes :
        \E manifest \in ManifestsOf(name) : Load(name, fs, manifest, outcome, {})

NextResolve == ResolveLoad

SpecResolve == Init /\ [][NextResolve]_vars

(***************************************************************************)
(* SpecOptions: streaming completions whose options range over the        *)
(* boundaries of every validated parameter, against at most one loaded    *)
(* model.                                                                  *)
(***************************************************************************)
\* an option a request leaves out, or supplies with value v
Omitted == [ given |-> FALSE, v |-> 0 ]
Given(v) == [ given |-> TRUE, v |-> v ]

\* the options dictionary of a request
Supplied(temperature, top_k, top_p, num_predict, num_ctx) ==
    LET all == [ temperature |-> temperature, top_k |-> top_k, top_p |-> top_p,
                 num_predict |-> num_predict, num_ctx |-> num_ctx ]
        keys == { k \in DOMAIN all : all[k].given }
    IN  [ k \in keys |-> all[k].v ]

TemperatureChoices ==
    { Omitted, Given(-1), Given(0), Given(MaxTemperature), Given(MaxTemperature + 1) }
TopKChoices == { Omitted, Given(-1), Given(0), Given(MaxTopK), Given(MaxTopK + 1) }
TopPChoices == { Omitted, Given(-1), Given(0), Given(MaxTopP), Given(MaxTopP + 1) }
NumPredictChoices ==
    { Omitted, Given(0), Given(1), Given(OptionDefaults.num_ctx + 1),
      Given(MaxNumPredict), Given(MaxNumPredict + 1) }
NumCtxChoices == { Omitted, Given(2048) }

\* every combination of the validated options, and num_predict against a
\* supplied num_ctx
WideOptionSets ==
    { Supplied(t, k, p, n, Omitted) :
        t \in TemperatureChoices, k \in TopKChoices, p \in TopPChoices,
        n \in NumPredictChoices }
    \cup { Supplied(Omitted, Omitted, Omitted, n, c) :
             n \in NumPredictChoices, c \in NumCtxChoices }

\* requests without images over every option set; requests with an image
\* over the num_predict choices
WideRequests ==
    { Request(len, << >>, FALSE, o) :
        len \in { 1, MaxPromptChars, MaxPromptChars + 1 }, o \in WideOptionSets }
    \cup { Request(1, << TRUE >>, FALSE, Supplied(t, Omitted, Omitted, n, Omitted)) :
             t \in TemperatureChoices, n \in NumPredictChoices }

\* option keys Options accepts and nothing reads, keys it does not know,
\* and a body field CompletionRequest does not know
UninterpretedOptions ==
    { "seed" :> 42,
      "bogus" :> 1,
      ("seed" :> 42) @@ ("stop" :> 1) @@ ("mirostat" :> 2) @@ ("num_batch" :> 8)
          @@ ("bogus" :> 1) @@ ("num_thread" :> 8) }
UnknownBodyField == "api_version" :> 1

\* requests carrying uninterpreted keys next to interpreted ones
PaddedRequests ==
    { Request(1, << >>, FALSE, Supplied(t, Omitted, Omitted, n, Omitted) @@ u) :
        t \in { Omitted, Given(0), Given(MaxTemperature + 1) },
        n \in { Omitted, Given(1) }, u \in UninterpretedOptions }
    \cup { Request(1, << >>, FALSE, Supplied(Omitted, Omitted, Omitted, n, Omitted) @@ u)
               @@ UnknownBodyField :
             n \in { Omitted, Given(1) }, u \in UninterpretedOptions }

\* one /load that succeeds, before any completion
FirstLoad ==
    /\ loadSeq = 0
    /\ pc = "idle"
    /\ \E name \in ModelNames, manifest \in { "text", "vision_key" } :
           Load(name, "valid", manifest, "ok", {})

\* the engine of this specification: one token text, one exception text
NextOptions ==
    \/ FirstLoad
    \/ \E r \in WideRequests \cup PaddedRequests : Submit(r)
    \/ GenValidate
    \/ \E raises \in BOOLEAN : Tokenize(4, raises)
    \/ \E raises \in BOOLEAN : Sampler(raises)
    \/ StreamText(<< "a" >>)
    \/ StreamEnd
    \/ StreamRaise({})
    \/ StreamResume
    \/ \E i \in BOOLEAN : VisionSetup(i, TRUE, TRUE)
    \/ VisionText(<< "a" >>, TRUE)
    \/ VisionEnd
    \/ VisionRaise
    \/ VisionResume
    \/ VisionFallback(<< "a" >>)
    \/ VisionFallbackResume
    \/ FinishStream
    \/ Recycle

SpecOptions == Init /\ [][NextOptions]_vars

(***************************************************************************)
(* SpecExtract: buffered (tools) completions whose generated text is one  *)
(* of the payloads models produce, for the tool-call extractor.           *)
(***************************************************************************)
\* pieces of JSON text: a string literal, a member, an object, an array
Q(word) == << Quote, word, Quote >>
Member(key, value) == Q(key) \o << ":" >> \o value
Braces(body) == << "{" >> \o body \o << "}" >>
Brackets(body) == << "[" >> \o body \o << "]" >>

\* the three shapes of one call
ShapeFunction(n, a) ==
    Braces(Member("function",
                  Braces(Member("name", Q(n)) \o << "," >> \o Member("arguments", a))))
ShapeName(n, a) ==
    Braces(Member("name", Q(n)) \o << "," >> \o Member("arguments", a))
ShapeKey(n, a) == Braces(Member(n, a))

\* another call, to stand before the one under test
OtherCall == ShapeKey("g", << "{", "}" >>)

\* where a call stands: alone, in a bare array or in a tool_calls array,
\* first or second
Containers == { "alone", "array", "array_second", "tool_calls", "tool_calls_second" }
Contain(c, call) ==
    CASE c = "alone" -> call
      [] c = "array" -> Brackets(call)
      [] c = "array_second" -> Brackets(OtherCall \o << "," >> \o call)
      [] c = "tool_calls" -> Braces(Member("tool_calls", Brackets(call)))
      [] OTHER -> Braces(Member("tool_calls",
                                 Brackets(OtherCall \o << "," >> \o call)))

\* function names: ordinary ones, and the keys the shapes themselves use
ReservedNames == { "function", "name", "id", "tool_calls" }
CallNames == { "get_weather", "f" } \cup ReservedNames

\* arguments that are mappings
ArgumentMaps ==
    { << "{", "}" >>, Braces(Member("location", Q("SF"))), Braces(Member("k", Q("}"))) }

\* arguments that are strings: JSON for a mapping, for an array, a number, a
\* literal, and not JSON at all
ArgumentStrings ==
    { << Quote, "{", "}", Quote >>,
      << Quote, "{", EscQuote, "k", EscQuote, ":", "1", "}", Quote >>,
      << Quote, "[", "1", "]", Quote >>,
      << Quote, "1", Quote >>,
      << Quote, "null", Quote >>,
      << Quote, "true", Quote >>,
      << Quote, "oops", Quote >>,
      << Quote, Quote >> }

\* arguments that are neither
ArgumentOthers == { << "1" >>, << "[", "1", "]" >>, << "null" >>, << "true" >> }

ArgumentValues == ArgumentMaps \cup ArgumentStrings \cup ArgumentOthers

\* texts without a usable payload, or with narrative around one
PlainTexts ==
    { << "I", Blank, "think", Blank, "the", Blank, "answer", Blank, "is", Blank, "42" >>,
      << "{" >>,
      << "{", "a", "}" >>,
      << "[", "]" >>,
      << "{", "}" >>,
      << "1" >>,
      Q("f"),
      << "}", Blank >> \o ShapeKey("f", << "{", "}" >>),
      << "{", "a", "}", Blank >> \o ShapeKey("f", << "{", "}" >>),
      << "ok", Blank >> \o ShapeKey("f", << "{", "}" >>) \o << Blank, "done" >>,
      ShapeName("", << "{", "}" >>),
      Braces(Member("name", << "1" >>)),
      Braces(Member("function", << "1" >>)),
      Braces(Member("id", Q("x")) \o << "," >> \o Member("name", Q("f"))),
      << Blank, "a" >>,
      << "a", Blank >> }

\* spans the bracket scan finds: one that is not JSON, three that are JSON
\* and hold no call, two that hold a call
Spans ==
    { << "{", "a", "}" >>, << "{", "}" >>, << "[", "]" >>, Brackets(<< "{", "}" >>),
      ShapeKey("f", << "{", "}" >>), OtherCall }

\* texts with three spans one after the other
CandidateTexts ==
    { s1 \o << Blank >> \o s2 \o << Blank >> \o s3 : s1 \in Spans, s2 \in Spans, s3 \in Spans }

\* entries of a call container: calls in two shapes, and entries without a
\* name: an empty name, no name, and a function key that holds no mapping
NamedEntries == { Braces(Member("name", Q("f"))), ShapeKey("h", << "{", "}" >>) }
NamelessEntries ==
    { Braces(Member("name", << Quote, Quote >>)), << "{", "}" >>,
      Braces(Member("function", << "1" >>)) }
Entries == NamedEntries \cup NamelessEntries

\* an entry with a name key next to a function key that holds no mapping: the
\* function key is looked at first, so the entry has no name
ShadowedName == Braces(Member("function", << "1" >>) \o << "," >> \o Member("name", Q("f")))

MaxEntries == 3
EntryLists ==
    UNION { [ 1..n -> Entries ] : n \in 0..MaxEntries }
    \cup { << ShadowedName >>, << ShapeKey("h", << "{", "}" >>), ShadowedName >> }

RECURSIVE Listed(_)
\* the entries separated by commas
Listed(es) ==
    IF es = << >> THEN << >>
    ELSE IF Len(es) = 1 THEN es[1]
    ELSE es[1] \o << "," >> \o Listed(Tail(es))

\* a call container holding the entries: a bare array or a tool_calls array
InContainer(c, es) ==
    IF c = "array" THEN Brackets(Listed(es))
    ELSE Braces(Member("tool_calls", Brackets(Listed(es))))

ContainerTexts == { InContainer(c, es) : c \in { "array", "tool_calls" }, es \in EntryLists }

\* the texts the engine produces as the whole output of a generation
ExtractTexts ==
    { Contain(c, ShapeFunction(n, a)) : c \in Containers, n \in CallNames, a \in ArgumentMaps }
    \cup { Contain(c, ShapeName(n, a)) : c \in Containers, n \in CallNames, a \in ArgumentMaps }
    \cup { Contain(c, ShapeKey(n, a)) : c \in Containers, n \in CallNames, a \in ArgumentMaps }
    \cup { ShapeFunction("f", v) : v \in ArgumentValues }
    \cup { ShapeName("f", v) : v \in ArgumentValues }
    \cup { ShapeKey("f", v) : v \in ArgumentValues }
    \cup PlainTexts
    \cup CandidateTexts
    \cup ContainerTexts

\* the texts the engine produces token by token
DeltaTexts == { << "a" >>, << Blank >>, ToolCallText }

\* completion requests that carry tools: one token, or up to two
ToolRequests ==
    { Request(5, << >>, TRUE, "num_predict" :> 1),
      Request(5, << >>, TRUE, "num_predict" :> 2) }

NextExtract ==
    \/ FirstLoad
    \/ \E r \in ToolRequests : Submit(r)
    \/ GenValidate
    \/ Tokenize(4, FALSE)
    \/ Sampler(FALSE)
    \/ (options.num_predict = 1 /\ \E text \in ExtractTexts : StreamText(text))
    \/ (options.num_predict = 2 /\ \E text \in DeltaTexts : StreamText(text))
    \/ StreamEnd
    \/ StreamRaise({})
    \/ StreamResume
    \/ FinishBuffered
    \/ Recycle

SpecExtract == Init /\ [][NextExtract]_vars

(***************************************************************************)
(* SpecEmbed: one model, the strategy chosen for it, and embed() on texts  *)
(* of one or two tokens.                                                   *)
(***************************************************************************)
\* what the tokenizer and the model return for a text
EmbedInputs ==
    UNION { [ tokens : [ 1..n -> TokenIds ], hidden : [ 1..n -> HiddenVectors ],
              special : SpecialIdSets, text_empty : { FALSE } ] : n \in 1..MaxTextTokens }
    \cup [ tokens : { << >> }, hidden : { << >> }, special : { {} }, text_empty : { TRUE } ]

\* /load of an embedding model
EmbedLoad ==
    /\ loadSeq = 0
    /\ embed_out = << >>
    /\ \E name \in EmbedModelNames, outcome \in { "ok", "raise" } :
           Load(name, "valid", "text", outcome, {})

\* _detect_embedding_strategy() on the slot as it is
Detect ==
    /\ embed_out = << >>
    /\ embed_in' = << >>
    /\ embed_out' = << [ raised |-> None,
                         strategy |-> detect_embedding_strategy(
                                          Spell(model_manager.current_model_name)) ] >>
    /\ UNCHANGED << envVars, loadVars, genVars, serveVars >>

\* embed(text)
Embed(in) ==
    /\ embed_out = << >>
    /\ embed_in' = << in >>
    /\ embed_out' = << embed(model_manager, in.text_empty, in.tokens, in.hidden,
                             in.special) >>
    /\ UNCHANGED << envVars, loadVars, genVars, serveVars >>

\* the caller has taken the result
EmbedReturn ==
    /\ embed_out # << >>
    /\ embed_in' = << >>
    /\ embed_out' = << >>
    /\ UNCHANGED << envVars, loadVars, genVars, serveVars >>

NextEmbed ==
    \/ EmbedLoad
    \/ Detect
    \/ \E in \in EmbedInputs : Embed(in)
    \/ EmbedReturn

SpecEmbed == Init /\ [][NextEmbed]_vars

(***************************************************************************)
(* SpecServe: the event loop with a /load, /health requests, a second      *)
(* /completion and a client that disconnects. No handler of the server     *)
(* awaits anything but the transport, so a handler runs from one send to   *)
(* the next, and load_model runs from start to end, before any other does. *)
(***************************************************************************)
\* /health requests in one behaviour
MaxHealth == 1

\* load_model is running: the /load handler has called it and it has not returned
LoadRunning == loading # << >> /\ loading[1].seq > loadSeq

\* the client has gone and the completion handler is parked on the transport
Cancelled == gone # << >> /\ Suspended /\ pc \notin { "idle", "closed" }

\* a step of the completion handler: the event loop is free to run it
Run(step) == ~LoadRunning /\ ~Cancelled /\ step

\* load_endpoint: the handler calls load_model
LoadBegin ==
    /\ Suspended
    /\ ~LoadRunning
    /\ loadSeq < MaxStreamLoads
    /\ \E name \in ModelNames, outcome \in { "ok", "raise" } :
           loading' = << [ seq |-> loadSeq + 1, name |-> name,
                           manifest |-> "text", outcome |-> outcome ] >>
    /\ UNCHANGED << envVars, loadVars, genVars, embedVars, health, other, gone >>

\* load_endpoint: load_model returns or raises
LoadEnd ==
    /\ LoadRunning
    /\ Load(loading[1].name, "valid", loading[1].manifest, loading[1].outcome, {})

\* a /health request reaches the server
HealthArrive ==
    /\ Len(health) < MaxHealth
    /\ health' = Append(health, [ during |-> IF LoadRunning THEN loading[1].seq ELSE 0,
                                  answered |-> FALSE ])
    /\ UNCHANGED << envVars, loadVars, genVars, embedVars, loading, other, gone >>

\* health_check: the event loop runs the handler
HealthAnswer ==
    /\ Suspended
    /\ ~LoadRunning
    /\ \E i \in 1..Len(health) :
        /\ ~health[i].answered
        /\ health' =
               [ health EXCEPT ![i] =
                   [ during |-> health[i].during, answered |-> TRUE,
                     loads_done |-> loadSeq,
                     model_loaded |-> model_manager.current_model_name # None,
                     current_model |-> model_manager.current_model_name,
                     is_vision_model |-> model_manager.is_vision_model,
                     capabilities |->
                         IF model_manager.is_vision_model
                         THEN << "completion", "vision" >>
                         ELSE << "completion" >> ] ]
    /\ UNCHANGED << envVars, loadVars, genVars, embedVars, loading, other, gone >>

\* a second /completion request, streamed: its handler runs up to the send
\* of its first record, of each further record, and of its terminal record
OtherStart ==
    /\ Suspended
    /\ ~LoadRunning
    /\ other = "idle"
    /\ ~NoModelLoaded(model_manager)
    /\ other' = "token_1"
    /\ UNCHANGED << envVars, loadVars, genVars, embedVars, loading, health, gone >>

OtherToken ==
    /\ Suspended
    /\ ~LoadRunning
    /\ other = "token_1"
    /\ other' = "token_2"
    /\ UNCHANGED << envVars, loadVars, genVars, embedVars, loading, health, gone >>

OtherEnd ==
    /\ Suspended
    /\ ~LoadRunning
    /\ other \in { "token_1", "token_2" }
    /\ other' = "idle"
    /\ UNCHANGED << envVars, loadVars, genVars, embedVars, loading, health, gone >>

\* the client of the completion request closes its connection
ClientDisconnect ==
    /\ pc \notin { "idle", "closed" }
    /\ gone = << >>
    /\ gone' = << [ produced |-> produced, events |-> Len(events) ] >>
    /\ UNCHANGED << envVars, loadVars, genVars, embedVars, loading, health, other >>

\* mutant: closing the generator also empties the slot
Cancel_Unloads ==
    /\ Cancelled
    /\ ~LoadRunning
    /\ pc' = "closed"
    /\ model_manager' = NoSlot
    /\ UNCHANGED << envVars, loadSeq, lastLoad, embedVars, serveVars, req,
                    decoded_images, prompt_tokens, token_count,
                    max_tokens_generated, produced, eval_start, events, sent,
                    escaped, engineCalls, engineFailedAt, warnings, slotAtStart >>

\* the transport refuses the parked handler: response_generator is closed
Cancel ==
    /\ Cancelled
    /\ ~LoadRunning
    /\ pc' = "closed"
    /\ UNCHANGED << envVars, loadVars, embedVars, serveVars, req, decoded_images,
                    prompt_tokens, token_count, max_tokens_generated, produced,
                    eval_start, events, sent, escaped, engineCalls,
                    engineFailedAt, warnings, slotAtStart >>

\* the response is over and the handler's state is dropped
ServeRecycle ==
    /\ pc = "closed"
    /\ ~LoadRunning
    /\ DropRequest
    /\ gone' = << >>
    /\ UNCHANGED << envVars, loadVars, embedVars, loading, health, other >>

\* completion requests of this specification: streamed, and buffered
ServeRequests ==
    { Request(5, << >>, FALSE, EmptyOptions), Request(5, << >>, TRUE, EmptyOptions) }

NextServe ==
    \/ LoadBegin
    \/ LoadEnd
    \/ HealthArrive
    \/ HealthAnswer
    \/ OtherStart
    \/ OtherToken
    \/ OtherEnd
    \/ ClientDisconnect
    \/ Cancel
    \/ ServeRecycle
    \/ Run(\E r \in ServeRequests : Submit(r))
    \/ Run(GenValidate)
    \/ Run(Tokenize(4, FALSE))
    \/ Run(Sampler(FALSE))
    \/ Run(StreamText(<< "a" >>))
    \/ Run(StreamEnd)
    \/ Run(StreamResume)
    \/ Run(FinishStream)
    \/ Run(FinishBuffered)

SpecServe == Init /\ [][NextServe]_vars

(***************************************************************************)
(* SpecSlot: the active-model slot between completions: /load requests of  *)
(* every kind, embeddings and /health.  SpecFrame: the slot under          *)
(* completions on both paths and in both modes, a client that disconnects, *)
(* and embeddings, with loads that succeed.                                *)
(***************************************************************************)
\* a /load request: a name that is missing or too long, a model that is
\* already loaded, a load that succeeds, and one that fails before or
\* after the loader
SlotLoad ==
    /\ loadSeq < MaxStreamLoads
    /\ \E name \in ModelNames \cup { "", LongName }, fs \in { "valid", "no_weights" },
          manifest \in { "text", "vision_key" },
          outcome \in { "ok", "tokenizer_none" } :
           Load(name, fs, manifest, outcome, {})

\* completion requests of SpecFrame: streamed, buffered, with an image, and
\* one that generate() rejects
FrameRequests ==
    { Request(5, << >>, FALSE, "num_predict" :> 1),
      Request(5, << >>, TRUE, "num_predict" :> 1),
      Request(5, << TRUE >>, FALSE, "num_predict" :> 1),
      Request(5, << >>, FALSE, "num_predict" :> -1) }

\* the hidden vector with value v in dimension k
Along(k, v) == [ d \in 1..HiddenDim |-> IF d = k THEN v ELSE 0 ]

\* texts handed to the embedding endpoint: empty, one token, two tokens
SlotEmbedInputs ==
    { [ tokens |-> << >>, hidden |-> << >>, special |-> {}, text_empty |-> TRUE ],
      [ tokens |-> << 1 >>, hidden |-> << Along(1, 1) >>, special |-> {},
        text_empty |-> FALSE ],
      [ tokens |-> << 0, 1 >>, hidden |-> << Along(1, 1), Along(HiddenDim, 2) >>,
        special |-> { 0 }, text_empty |-> FALSE ] }

\* the embedding endpoint, between completions
SlotEmbed ==
    /\ pc = "idle"
    /\ loadSeq > 0
    /\ \E in \in SlotEmbedInputs : Embed(in)

NextSlot ==
    \/ SlotLoad
    \/ HealthArrive
    \/ HealthAnswer
    \/ SlotEmbed
    \/ EmbedReturn

SpecSlot == Init /\ [][NextSlot]_vars

\* a /load request that succeeds, for a text or a vision model
FrameLoad ==
    /\ loadSeq < MaxStreamLoads
    /\ \E name \in ModelNames, manifest \in { "text", "vision_key" } :
           Load(name, "valid", manifest, "ok", {})

NextFrame ==
    \/ FrameLoad
    \/ SlotEmbed
    \/ EmbedReturn
    \/ ClientDisconnect
    \/ Cancel
    \/ ServeRecycle
    \/ Run(\E r \in FrameRequests : Submit(r))
    \/ Run(GenValidate)
    \/ Run(\E raises \in BOOLEAN : Tokenize(4, raises))
    \/ Run(Sampler(FALSE))
    \/ Run(StreamText(<< "a" >>))
    \/ Run(StreamEnd)
    \/ Run(StreamRaise({}))
    \/ Run(StreamResume)
    \/ Run(VisionSetup(TRUE, TRUE, TRUE))
    \/ Run(VisionText(<< "a" >>, TRUE))
    \/ Run(VisionEnd)
    \/ Run(VisionRaise)
    \/ Run(VisionResume)
    \/ Run(VisionFallback(<< "a" >>))
    \/ Run(VisionFallbackResume)
    \/ Run(FinishStream)
    \/ Run(FinishBuffered)

SpecFrame == Init /\ [][NextFrame]_vars

(***************************************************************************)
(* SpecConstruct: a process that changes its environment and constructs   *)
(* managers, as the unit test of the constructor does.                    *)
(***************************************************************************)
EnvKeys == { "OLLAMA_MODELS", "HUGGINGFACE_HUB_CACHE", "HF_HOME" }

\* the values a variable is given: empty, absolute, with a trailing
\* separator, under the home directory, relative
EnvValues ==
    { << >>, << Root, "m" >>, << Root, "m", "" >>, << Tilde, "m" >>, << "rel" >> }

\* os.environ[key] = value, or del os.environ[key]
Setenv(key, value) ==
    /\ environ' = [ environ EXCEPT ![key] = value ]
    /\ built' = << >>
    /\ UNCHANGED << MLX_VLM_AVAILABLE, PIL_AVAILABLE, vlm_streams, model_path,
                    embedVars, serveVars, loadVars, genVars >>

\* MLXModelManager(): mkdir raises, or the manager is built and the two
\* cache variables are filled in
Construct(mkdir_ok) ==
    /\ built' = << [ before |-> environ, raised |-> ~mkdir_ok ] >>
    /\ IF mkdir_ok
       THEN /\ model_path' = base_path(environ)
            /\ environ' = [ environ EXCEPT
                              !.HUGGINGFACE_HUB_CACHE =
                                  CacheVariable(environ, "HUGGINGFACE_HUB_CACHE",
                                                base_path(environ)),
                              !.HF_HOME =
                                  CacheVariable(environ, "HF_HOME",
                                                base_path(environ)) ]
       ELSE UNCHANGED << environ, model_path >>
    /\ UNCHANGED << MLX_VLM_AVAILABLE, PIL_AVAILABLE, vlm_streams,
                    embedVars, serveVars, loadVars, genVars >>

NextConstruct ==
    \/ \E key \in EnvKeys, value \in EnvValues : Setenv(key, << value >>)
    \/ \E key \in EnvKeys : Setenv(key, << >>)
    \/ \E mkdir_ok \in BOOLEAN : Construct(mkdir_ok)

SpecConstruct == Init /\ [][NextConstruct]_vars

(***************************************************************************)
(* Properties of the completion protocol (checked under Spec).            *)
(***************************************************************************)
\* the request passed generate()'s checks and is being, or has been, answered
Validated == pc \notin { "idle", "ready" } /\ req.prompt_len > 0 /\ escaped = None

\* generate() has yielded its terminal event
Terminated == pc \in { "finishing", "closed" }

\* generate() is driving the engine: past its checks, terminal event not yet out
Driving ==
    pc \in { "tokenize", "sampler", "stream", "resume", "vision", "vstream",
             "vresume", "vfallback", "vfallback_resume" }

\* the number of done=true records in a sequence of events
DoneCount(s) == Cardinality({ i \in 1..Len(s) : s[i].done })

\* C1: for a request with a non-empty prompt, in-range options and a loaded
\* model, whatever the engine does and on the text and the vision path, the
\* events generate() yields hold exactly one done=true event and it is the
\* last one; the records delivered to the client end the same way.
C1_ExactlyOneDoneLast ==
    Validated =>
        /\ \A i \in 1..Len(events) :
               events[i].done <=> (i = Len(events) /\ Terminated)
        /\ Terminated => DoneCount(events) = 1
        /\ ~req.tools_present => sent = events
        /\ pc = "closed" => DoneCount(sent) = 1 /\ sent[Len(sent)].done

\* a vision generation that streamed two tokens and then ended
C1_Witness ==
    /\ Validated
    /\ pc = "closed"
    /\ decoded_images # << >>
    /\ Len(events) = 3
    /\ engineFailedAt = -1

\* C2: a request with a non-empty prompt that fails before generation begins
\* (no model loaded, an out-of-range option, a prompt over the limit) still
\* delivers a terminal done=true record as the last record of the response.
C2_EarlyFailureStillTerminal ==
    ( /\ pc = "closed"
      /\ req.prompt_len > 0
      /\ \/ ValidationError(req.prompt_len, options.temperature, options.top_k,
                            options.top_p, options.num_predict) # None
         \/ NoModelLoaded(model_manager) )
    => (sent # << >> /\ sent[Len(sent)].done)

\* C3: when an engine call fails after generation has started, generate()
\* yields exactly one further event, with done=true and done_reason "error",
\* and nothing after it; no exception leaves the response generator.
C3_EngineFailureOneErrorEvent ==
    engineFailedAt >= 0 =>
        /\ Terminated
        /\ escaped = None
        /\ Len(events) = engineFailedAt + 1
        /\ events[Len(events)].done
        /\ events[Len(events)].done_reason = "error"
        /\ ~req.tools_present => sent = events

\* a streamed response whose engine failed after at least one token
C3_Witness ==
    /\ engineFailedAt >= 1
    /\ pc = "closed"
    /\ ~req.tools_present

\* C4: in the buffered (tools) mode, when the engine fails mid-generation
\* the single record delivered has done=true and done_reason "error".
C4_BufferedFailureReportsError ==
    (pc = "closed" /\ req.tools_present /\ engineFailedAt >= 1)
    => /\ Len(sent) = 1
       /\ sent[1].done
       /\ sent[1].done_reason = "error"

\* C5: while a streaming generation drives the engine, the active-model slot
\* (name, model, tokenizer, is_vision flag) is the one it started with.
C5_SlotStableUnderStream ==
    (Driving /\ ~req.tools_present) =>
        /\ model_manager.current_model_name = slotAtStart.current_model_name
        /\ model_manager.model = slotAtStart.model
        /\ model_manager.tokenizer = slotAtStart.tokenizer
        /\ model_manager.is_vision_model = slotAtStart.is_vision_model

\* C11: a request with an empty prompt is answered with exactly one record,
\* content "", done=true, done_reason "stop", and no engine call is made, in
\* every state of the slot, with or without tools, whatever the options.
C11_EmptyPromptShortCircuit ==
    /\ req.prompt_len = 0 => pc \in { "idle", "closed" }
    /\ (pc = "closed" /\ req.prompt_len = 0) =>
           /\ sent = << [ CompletionResponse EXCEPT !.done = TRUE,
                                                    !.done_reason = "stop" ] >>
           /\ sent[1].content = << >>
           /\ engineCalls = << >>
           /\ events = << >>
           /\ escaped = None

\* an empty prompt with tools and an out-of-range option, no model loaded
C11_Witness ==
    /\ pc = "closed"
    /\ req.prompt_len = 0
    /\ req.tools_present
    /\ "num_predict" \in DOMAIN req.options
    /\ NoModelLoaded(model_manager)
    /\ Len(sent) = 1

\* C12: in the events of a generation the k-th non-terminal event carries
\* eval_count = k and the terminal event's eval_count is the number of
\* non-terminal events before it, also when the terminal event is an error.
C12_EvalCountCountsEvents ==
    Validated =>
        \A i \in 1..Len(events) :
            events[i].eval_count = IF events[i].done THEN i - 1 ELSE i

\* the generation runs, or ran, on the text path
OnTextPath ==
    Validated /\ ~TakesVisionPath(slotAtStart, decoded_images, MLX_VLM_AVAILABLE)

\* C13: once the engine has produced more than 2 x num_predict responses
\* without ending or failing, the runaway guard has fired: the token loop
\* is over, a warning is recorded and the terminal event is out.
C13_RunawayGuardFires ==
    (OnTextPath /\ engineFailedAt = -1 /\ produced > 2 * options.num_predict)
    => /\ Terminated
       /\ "generated more tokens than requested" \in warnings
       /\ events # << >> /\ events[Len(events)].done

\* the number of content (done=false) events yielded so far
ContentEvents == Len(events) - DoneCount(events)

\* C14: every generation reaches its terminal event even if the engine never
\* ends its stream: the content events never exceed num_predict, and the
\* orchestrator does not ask the engine for yet another response once it
\* has consumed more than the stop conditions allow (num_predict, or the
\* runaway bound of 2 x num_predict).
C14_GenerationBounded ==
    Validated =>
        /\ ContentEvents <= options.num_predict
        /\ pc \in { "stream", "vstream" } => produced <= 2 * options.num_predict

\* C15: without tools, every event generate() yields is written to the
\* response as one record before the engine is asked for the next token, and
\* the records are the events in generation order, none dropped, duplicated
\* or reordered.
C15_StreamedInOrder ==
    (Validated /\ ~req.tools_present) =>
        /\ Len(sent) = Len(events)
        /\ \A i \in 1..Len(events) : sent[i] = events[i]

\* two records delivered and the engine about to be asked for a third token
C15_Witness ==
    /\ Validated
    /\ ~req.tools_present
    /\ pc = "stream"
    /\ Len(sent) = 2
    /\ sent[2].eval_count = 2

\* C16: with tools, nothing reaches the client while the generation runs; the
\* client receives exactly one record, done=true, built after the generation
\* has ended from the accumulated text and the tool calls extracted from it.
C16_BufferedSingleRecord ==
    (Validated /\ req.tools_present) =>
        /\ pc # "closed" => sent = << >>
        /\ pc = "closed" =>
               /\ Len(sent) = 1
               /\ sent[1].done
               /\ events # << >> /\ events[Len(events)].done
               /\ sent[1].tool_calls
                      = parse_tool_calls(strip(Join([ i \in 1..Len(events) |->
                                                        events[i].content ])))

\* a buffered response to a generation of two tokens and its final event
C16_Witness ==
    /\ Validated
    /\ req.tools_present
    /\ pc = "closed"
    /\ Len(events) = 3
    /\ Len(sent) = 1

\* the engine calls of the two paths
TextCalls == { "tokenize", "make_sampler", "stream_generate" }
VisionCalls == { "apply_chat_template", "vlm.stream_generate", "vlm.generate" }
OnePathDrives ==
    \/ \A i \in 1..Len(engineCalls) : engineCalls[i].fn \in TextCalls
    \/ \A i \in 1..Len(engineCalls) : engineCalls[i].fn \in VisionCalls

\* where generate() is while it drives the engine on each path
TextDriving == pc \in { "tokenize", "sampler", "stream", "resume" }
VisionDriving == Driving /\ ~TextDriving

\* the request ended without a failure of the engine or an over-long prompt
EndedUndisturbed ==
    /\ Validated /\ Terminated
    /\ engineFailedAt = -1
    /\ prompt_tokens \in 1..MaxContextTokens

\* images given to a model that is not a vision model end on the text path
\* with a normal terminal event
DroppedImagesEndNormally ==
    (EndedUndisturbed /\ req.images # << >> /\ ~slotAtStart.is_vision_model) =>
        /\ events[Len(events)].done_reason = "stop"
        /\ \A i \in 1..Len(engineCalls) : engineCalls[i].fn \in TextCalls

\* C23: within one request one path drives the engine; the vision sub-path is
\* taken exactly when images are supplied and the active model is
\* vision-capable; images given to a model that is not are dropped and the
\* request ends on the text path with done_reason "stop".
C23_ImageRouting ==
    Validated =>
        /\ OnePathDrives
        /\ Driving =>
               (VisionDriving <=> (req.images # << >> /\ slotAtStart.is_vision_model))
        /\ DroppedImagesEndNormally

\* the fields of a record, of a call and of its function
RecordFields ==
    { "content", "done", "done_reason", "prompt_eval_count", "prompt_eval_duration",
      "eval_count", "eval_duration", "logprobs", "tool_calls" }
CallFields == { "id", "function" }
FunctionFields == { "index", "name", "arguments" }

\* tool_calls is null, or a list of calls each with the fields of a call
WellFormedToolCalls(tool_calls) ==
    IF ~tool_calls.found THEN tool_calls.calls = << >>
    ELSE /\ tool_calls.calls # << >>
         /\ \A k \in 1..Len(tool_calls.calls) :
                /\ DOMAIN tool_calls.calls[k] = CallFields
                /\ DOMAIN tool_calls.calls[k].function = FunctionFields

\* C29: every record sent on a completion response, streamed or buffered,
\* content, terminal, error or empty-prompt, carries exactly the nine
\* fields of CompletionResponse, and its tool_calls is null or a list of
\* {id, function: {index, name, arguments}}.
C29_RecordFieldSet ==
    \A i \in 1..Len(sent) :
        /\ DOMAIN sent[i] = RecordFields
        /\ WellFormedToolCalls(sent[i].tool_calls)

C29_Witness ==
    /\ pc = "closed"
    /\ req.tools_present
    /\ Len(sent) = 1
    /\ sent[1].tool_calls.found
    /\ sent[1].done_reason = "tool_calls"
    /\ DOMAIN sent[1] = RecordFields

\* C32: prompt_eval_count and prompt_eval_duration are fixed once at stream
\* start: every event of one stream, non-terminal and terminal (an error
\* terminal event included), carries the same prompt_eval_count and the same
\* prompt_eval_duration.
C32_PromptEvalFixed ==
    \A i, j \in 1..Len(events) :
        /\ events[i].prompt_eval_count = events[j].prompt_eval_count
        /\ events[i].prompt_eval_duration = events[j].prompt_eval_duration

(***************************************************************************)
(* Properties of the model lifecycle (checked under SpecLoad).            *)
(***************************************************************************)
\* the slot a successful load of name leaves when it starts from nothing
FreshSlot(name, loader) ==
    IF loader = "vlm"
    THEN [ model |-> name, tokenizer |-> name, processor |-> name,
           image_processor |-> name, config |-> name,
           current_model_name |-> name, is_vision_model |-> TRUE ]
    ELSE [ NoSlot EXCEPT !.model = name, !.tokenizer = name,
                         !.current_model_name = name ]

\* C6: a failure during a load, from the empty slot or with another model
\* loaded, leaves every slot field cleared.  (A name that load_model rejects
\* starts no load; see LoadStatus and InvalidModelName.)
C6_FailedLoadClearsSlot ==
    lastLoad.result = "failed" => model_manager = NoSlot

\* a load that failed after assigning fields, while another model was loaded
C6_Witness ==
    /\ lastLoad.result = "failed"
    /\ lastLoad.stage \in { "config_raise", "tokenizer_none" }
    /\ lastLoad.before.current_model_name # None
    /\ lastLoad.before.is_vision_model

\* C7: load(name) with name the active model is a no-op: the loader is not
\* invoked and no slot field changes; of two consecutive load(name), the
\* first succeeding, only the first invokes the loader.
C7_LoadIdempotent ==
    /\ (lastLoad.name \in ModelNames
        /\ lastLoad.before.current_model_name = lastLoad.name)
       => /\ lastLoad.result = "noop"
          /\ lastLoad.loader = "none"
          /\ model_manager = lastLoad.before
    /\ (lastLoad.prev_result = "loaded" /\ lastLoad.prev_name = lastLoad.name)
       => /\ lastLoad.result = "noop"
          /\ lastLoad.loader = "none"
          /\ lastLoad.prev_loader # "none"
          /\ model_manager = lastLoad.before

\* two consecutive loads of one name, the first of which succeeded
C7_Witness ==
    /\ lastLoad.prev_result = "loaded"
    /\ lastLoad.prev_name = lastLoad.name
    /\ lastLoad.result = "noop"

\* C8: after load failures, a load of a different name whose loader does not
\* fail ends Loaded with that name, and the slot holds nothing but what that
\* load assigned.
C8_RetriableAfterFailure ==
    ( /\ lastLoad.prev_result = "failed"
      /\ lastLoad.name \in ModelNames
      /\ lastLoad.name # lastLoad.prev_name
      /\ lastLoad.stage \in { "done", "check" } )
    => /\ lastLoad.result = "loaded"
       /\ lastLoad.status = 200
       /\ model_manager = FreshSlot(lastLoad.name, lastLoad.loader)

\* a success, then a classified failure, then a successful load of another name
C8_Witness ==
    /\ loadSeq = 3
    /\ lastLoad.prev_result = "failed"
    /\ lastLoad.result = "loaded"
    /\ lastLoad.name # lastLoad.prev_name
    /\ lastLoad.loader = "vlm"

\* C36: load(name) with an invalid name (empty, not a string, or longer than
\* 256 characters) is rejected before loading starts and leaves the slot
\* unchanged: a model loaded before stays loaded; a failure during loading,
\* in contrast, unloads it.
C36_InvalidNameLeavesSlot ==
    /\ (loadSeq > 0 /\ lastLoad.name \in { "", NonStringName, LongName })
       => /\ lastLoad.stage = "validate"
          /\ lastLoad.loader = "none"
          /\ lastLoad.source = "none"
          /\ lastLoad.status # 200
          /\ model_manager = lastLoad.before
    /\ (lastLoad.result = "failed" /\ lastLoad.before.current_model_name # None)
       => model_manager.current_model_name = None

\* a name of 257 characters, with a vision model loaded: the model stays
C36_Witness ==
    /\ lastLoad.name = LongName
    /\ lastLoad.prev_result = "loaded"
    /\ lastLoad.before.is_vision_model
    /\ model_manager = lastLoad.before
    /\ model_manager.current_model_name = lastLoad.prev_name

\* C37: a /load request whose body has no model name (missing or empty) is
\* answered with a 400 client error, not a 500 server error, without calling
\* the loader and without changing the slot.
C37_MissingNameIs400 ==
    (loadSeq > 0 /\ lastLoad.name \in { None, "" })
    => /\ lastLoad.status = 400
       /\ lastLoad.loader = "none"
       /\ model_manager = lastLoad.before

\* the last /load got as far as resolving the name
Resolved == lastLoad.source # "none"

\* the underlying loader was handed the hub identifier / the cached directory
RemoteContacted == lastLoad.source = "remote" /\ lastLoad.loader # "none"
LocalUsed == lastLoad.source = "local" /\ lastLoad.loader # "none"

\* C38 (as amended): load(name) uses the local cache path whenever that path
\* holds a manifest file and a recognized weight file, and then never
\* contacts the remote collaborator; it contacts the remote collaborator
\* whenever the path does not exist; when the path exists without a manifest
\* or without a weight file the load fails and neither is used.
C38_ResolutionOrder ==
    Resolved =>
        /\ lastLoad.cache = "valid" => (LocalUsed /\ ~RemoteContacted)
        /\ lastLoad.cache = "missing" => RemoteContacted
        /\ lastLoad.cache \in { "no_config", "no_weights" }
           => /\ lastLoad.result = "failed"
              /\ ~RemoteContacted
              /\ ~LocalUsed

\* a cached directory without weights, with another model loaded: the load
\* fails without a loader call
C38_Witness ==
    /\ lastLoad.cache = "no_weights"
    /\ lastLoad.result = "failed"
    /\ lastLoad.loader = "none"
    /\ lastLoad.prev_result = "loaded"
    /\ lastLoad.before.current_model_name # None

\* C38 (as stated): load(name) uses the local cache path whenever that path
\* holds a manifest file and a recognized weight file, and contacts the
\* remote collaborator on every cache miss; the remote collaborator is never
\* contacted when a valid local cache entry exists.
C38_RemoteOnEveryMiss ==
    Resolved =>
        /\ lastLoad.cache = "valid" => (LocalUsed /\ ~RemoteContacted)
        /\ lastLoad.cache # "valid" => RemoteContacted

\* C39 (checked under SpecResolve): every successfully loaded model whose
\* manifest carries a multimodal indicator key or a VLM architecture name has
\* is_vision set and is loaded with the vision-capable loader, when that
\* loader is available, whether it was resolved from the local cache or
\* obtained from the remote collaborator; every other model has is_vision
\* false and is loaded with the text-only loader.
C39_VisionDetectedAnySource ==
    lastLoad.result = "loaded" =>
        IF ManifestsOf(lastLoad.name) # { "text" }
        THEN MLX_VLM_AVAILABLE
             => (model_manager.is_vision_model /\ lastLoad.loader = "vlm")
        ELSE ~model_manager.is_vision_model /\ lastLoad.loader = "text"

(***************************************************************************)
(* Properties of option validation (checked under SpecOptions).           *)
(***************************************************************************)
\* the value the request carries for an option, or the option's default
Requested(k) ==
    IF k \in DOMAIN req.options THEN req.options[k] ELSE OptionDefaults[k]

\* generate() has looked at the request
Examined == req.prompt_len > 0 /\ pc \notin { "idle", "ready" }

\* the request's options are inside the ranges generate() documents
InDocumentedRanges ==
    /\ 0 <= Requested("temperature") /\ Requested("temperature") <= MaxTemperature
    /\ 0 <= Requested("top_k") /\ Requested("top_k") <= MaxTopK
    /\ 0 <= Requested("top_p") /\ Requested("top_p") <= MaxTopP
    /\ 1 <= Requested("num_predict") /\ Requested("num_predict") <= MaxNumPredict

\* an engine call carries the request's values for the options it takes
PassedUnchanged(call) ==
    /\ "temp" \in DOMAIN call => call.temp = Requested("temperature")
    /\ "top_k" \in DOMAIN call => call.top_k = Requested("top_k")
    /\ "top_p" \in DOMAIN call => call.top_p = Requested("top_p")
    /\ "max_tokens" \in DOMAIN call => call.max_tokens = Requested("num_predict")

\* C9: a request whose temperature, top_k, top_p and num_predict are in range
\* (num_predict in [1, 131072]) is accepted and the engine receives the values
\* unchanged; a request with one of them out of range, or a prompt of more
\* than 8192 characters, is rejected with a validation error and no engine
\* call is made.
C9_OptionsAcceptedOrRejected ==
    Examined =>
        IF InDocumentedRanges /\ req.prompt_len <= MaxPromptChars
        THEN /\ escaped # "ValueError"
             /\ \A i \in 1..Len(engineCalls) : PassedUnchanged(engineCalls[i])
        ELSE /\ escaped = "ValueError"
             /\ engineCalls = << >>
             /\ events = << >>

\* options at the upper limits, accepted, and the token stream started
C9_Witness ==
    /\ pc = "stream"
    /\ Requested("temperature") = MaxTemperature
    /\ Requested("top_k") = MaxTopK
    /\ Requested("top_p") = MaxTopP
    /\ Requested("num_predict") = MaxNumPredict
    /\ Len(engineCalls) = 3

\* C10 (as amended): a request whose num_predict lies outside [1, 131072],
\* the fixed maximum generate() checks, is rejected with a validation error
\* before any engine call; num_ctx plays no part, so a num_predict above
\* num_ctx and at most 131072 is not rejected for it.
C10_NumPredictFixedWindow ==
    Examined =>
        /\ ~(1 <= Requested("num_predict") /\ Requested("num_predict") <= MaxNumPredict)
           => (escaped = "ValueError" /\ engineCalls = << >>)
        /\ (InDocumentedRanges /\ req.prompt_len <= MaxPromptChars)
           => escaped # "ValueError"

\* num_predict one above the maximum, rejected, with a num_ctx supplied
C10_Witness ==
    /\ pc = "closed"
    /\ escaped = "ValueError"
    /\ Requested("num_predict") = MaxNumPredict + 1
    /\ "num_ctx" \in DOMAIN req.options
    /\ engineCalls = << >>

\* C10 (as stated): a request whose num_predict lies outside [1, num_ctx],
\* num_ctx defaulting to 32768, is rejected with a validation error before
\* any engine call.  Stated for a server with a model loaded, where nothing
\* but validation can stop the request.
C10_NumPredictWithinNumCtx ==
    ( /\ Examined
      /\ ~NoModelLoaded(model_manager)
      /\ ~(1 <= Requested("num_predict")
           /\ Requested("num_predict") <= Requested("num_ctx")) )
    => (escaped = "ValueError" /\ engineCalls = << >>)

\* option keys that are accepted for wire compatibility only
InertKeys ==
    { "num_batch", "num_gpu", "main_gpu", "low_vram", "seed", "stop", "tfs_z",
      "typical_p", "mirostat", "mirostat_tau", "mirostat_eta" }

\* the request's options without the inert keys and the keys Options does
\* not know
Stripped ==
    [ k \in { j \in DOMAIN req.options : j \in KnownOptionFields \ InertKeys } |->
        req.options[k] ]

\* the value the stripped request carries for an option, or the default
StrippedValue(k) == IF k \in DOMAIN Stripped THEN Stripped[k] ELSE OptionDefaults[k]

\* the stripped request passes generate()'s validation
StrippedAccepted ==
    /\ req.prompt_len <= MaxPromptChars
    /\ 0 <= StrippedValue("temperature") /\ StrippedValue("temperature") <= MaxTemperature
    /\ 0 <= StrippedValue("top_k") /\ StrippedValue("top_k") <= MaxTopK
    /\ 0 <= StrippedValue("top_p") /\ StrippedValue("top_p") <= MaxTopP
    /\ 1 <= StrippedValue("num_predict") /\ StrippedValue("num_predict") <= MaxNumPredict

\* an engine call is the one the stripped request makes: its option fields
\* carry the stripped request's values and it has no field for another option
CallOfStripped(call) ==
    /\ DOMAIN call \subseteq
           { "fn", "model", "tokenizer", "processor", "prompt", "image",
             "temp", "top_k", "top_p", "max_tokens" }
    /\ "temp" \in DOMAIN call => call.temp = StrippedValue("temperature")
    /\ "top_k" \in DOMAIN call => call.top_k = StrippedValue("top_k")
    /\ "top_p" \in DOMAIN call => call.top_p = StrippedValue("top_p")
    /\ "max_tokens" \in DOMAIN call => call.max_tokens = StrippedValue("num_predict")

\* C30: unknown and inert keys have no effect.  The effective options are
\* the defaults overridden by exactly the recognized keys the request
\* supplies; no field the body carries beyond CompletionRequest's reaches the
\* handler; the request is rejected exactly when the same request without
\* its unrecognized and inert keys is; and every engine call is the call that
\* stripped request makes, so that two requests differing only in such keys
\* make the same calls and draw the same events from the same engine.
C30_UninterpretedKeysInert ==
    Examined =>
        /\ DOMAIN options = KnownOptionFields
        /\ \A k \in KnownOptionFields : options[k] = Requested(k)
        /\ DOMAIN req = RequestFields
        /\ (escaped = "ValueError") <=> ~StrippedAccepted
        /\ \A i \in 1..Len(engineCalls) : CallOfStripped(engineCalls[i])
        /\ ContentEvents <= StrippedValue("num_predict")

\* a request with inert and unknown option keys, streaming: the inert key
\* it supplies is held and the engine has been called as for the defaults
C30_Witness ==
    /\ pc = "stream"
    /\ { "seed", "stop", "bogus", "num_thread" } \subseteq DOMAIN req.options
    /\ options.seed = 42
    /\ Stripped = EmptyOptions
    /\ Len(engineCalls) = 3
    /\ engineCalls[2].temp = OptionDefaults.temperature

(***************************************************************************)
(* Properties of the buffered response and the tool-call extractor        *)
(* (checked under SpecExtract).                                            *)
(***************************************************************************)
\* a buffered response has been written for a request that passed the checks
BufferedDone == Validated /\ req.tools_present /\ pc = "closed"

\* the concatenation, in order, of the content of the events generated
GeneratedText == Join([ i \in 1..Len(events) |-> events[i].content ])

\* C17: with tools, the content of the final record is the generated text
\* verbatim: exactly the concatenation, in order, of the content deltas,
\* whether or not tool calls were extracted.
C17_ContentVerbatim ==
    BufferedDone => sent[1].content = GeneratedText

\* C18: extraction never fails the response and decides done_reason: the
\* final record has done_reason "tool_calls" and a non-empty list of calls
\* exactly when the extractor found a call in the accumulated text, and
\* otherwise done_reason "stop" and no tool_calls (a plain completion).
C18_ExtractionDecidesReason ==
    BufferedDone =>
        LET final == sent[1]
            extracted == parse_tool_calls(strip(GeneratedText))
        IN  /\ escaped = None
            /\ final.tool_calls = extracted
            /\ extracted.found <=> extracted.calls # << >>
            /\ final.done_reason = IF extracted.calls # << >> THEN "tool_calls" ELSE "stop"
            /\ extracted.calls = << >> => final.tool_calls = NoToolCalls

\* a text whose first candidate is not JSON and whose second holds a call
C18_Witness ==
    /\ BufferedDone
    /\ sent[1].content = << "{", "a", "}", Blank >> \o ShapeKey("f", << "{", "}" >>)
    /\ sent[1].done_reason = "tool_calls"
    /\ Len(sent[1].tool_calls.calls) = 1

\* C19: the arguments of every call the extractor returns are a mapping: a
\* mapping is kept, a string is parsed as JSON or wrapped as {"raw": string},
\* and nothing else, a string holding a JSON array, number or literal
\* included, survives as a non-mapping.
C19_ArgumentsAlwaysMapping ==
    BufferedDone =>
        \A i \in 1..Len(sent[1].tool_calls.calls) :
            sent[1].tool_calls.calls[i].function.arguments.t = "obj"

\* a name the shapes cannot tell from their own keys: {"function": a} and
\* {"name": a} are read as the first two shapes, {"id": a} gives the call the
\* id a, and {"tool_calls": a} standing alone is read as the container
Ambiguous(c, n, a) ==
    \/ n \in { "function", "name" }
    \/ n = "id" /\ a # << "{", "}" >>
    \/ n = "tool_calls" /\ c = "alone"

\* the text generated is the call n(a) in container c, in one of the shapes
Generated(c, n, a) ==
    /\ BufferedDone
    /\ GeneratedText \in { Contain(c, ShapeFunction(n, a)),
                           Contain(c, ShapeName(n, a)),
                           Contain(c, ShapeKey(n, a)) }

\* all three shapes of n(a) in c give what the record carries
SameInEveryShape(c, n, a) ==
    /\ sent[1].tool_calls = parse_tool_calls(Contain(c, ShapeFunction(n, a)))
    /\ sent[1].tool_calls = parse_tool_calls(Contain(c, ShapeName(n, a)))
    /\ sent[1].tool_calls = parse_tool_calls(Contain(c, ShapeKey(n, a)))

Candidates == json_candidates(strip(GeneratedText))
Qualifies(candidate) == NormalizeCandidate(candidate) # << >>
Earliest ==
    CHOOSE i \in 1..Len(Candidates) :
        Qualifies(Candidates[i]) /\ \A j \in 1..(i - 1) : ~Qualifies(Candidates[j])

\* C21: the result is that of the earliest candidate that parses as JSON and
\* normalizes to at least one call; the candidates before it are skipped, the
\* ones after it have no influence, and with no such candidate the result is
\* none.
C21_EarliestCandidateWins ==
    BufferedDone =>
        LET candidates == Candidates
            normalized == [ i \in 1..Len(candidates) |-> NormalizeCandidate(candidates[i]) ]
            qualifying == { i \in 1..Len(candidates) : normalized[i] # << >> }
        IN  IF qualifying = {}
            THEN sent[1].tool_calls = NoToolCalls
            ELSE LET earliest == CHOOSE i \in qualifying : \A j \in qualifying : i <= j
                 IN  /\ sent[1].tool_calls = [ found |-> TRUE, calls |-> normalized[earliest] ]
                     /\ sent[1].tool_calls =
                            parse_tool_calls(Join(SubSeq(candidates, 1, earliest)))

C21_Witness ==
    /\ BufferedDone
    /\ GeneratedText = << "{", "a", "}", Blank, "[", "]", Blank >> \o OtherCall
    /\ Len(Candidates) = 3
    /\ Earliest = 3
    /\ sent[1].tool_calls.calls[1].function.name = Str(<< "g" >>)

\* the function name an entry carries, "" when it carries none
NameOf(e) ==
    CASE e = Braces(Member("name", Q("f"))) -> "f"
      [] e = ShapeKey("h", << "{", "}" >>) -> "h"
      [] OTHER -> ""

\* the positions of the entries that carry a name, in order
NamedPositions(es) ==
    SelectSeq([ i \in 1..Len(es) |-> i ], LAMBDA i : NameOf(es[i]) # "")

\* the calls of those entries, each with the position it had in the container
NamedCalls(es) ==
    LET at == NamedPositions(es)
    IN  [ k \in 1..Len(at) |->
            [ id |-> CallId(at[k] - 1),
              function |-> [ index |-> at[k] - 1, name |-> Str(<< NameOf(es[at[k]]) >>),
                             arguments |-> Obj(EmptyMap) ] ] ]

\* each container text with the calls of its named entries
ContainerCalls ==
    { << InContainer(c, es), NamedCalls(es) >> : c \in { "array", "tool_calls" }, es \in EntryLists }

\* C22: for a tool_calls array or a bare array the output is exactly the
\* entries that carry a non-empty function name, in their original order;
\* the other entries are dropped, and an output that would be empty is none.
C22_NamedEntriesInOrder ==
    (BufferedDone /\ GeneratedText \in ContainerTexts) =>
        /\ << GeneratedText, sent[1].tool_calls.calls >> \in ContainerCalls
        /\ sent[1].tool_calls.found <=> sent[1].tool_calls.calls # << >>
        /\ sent[1].tool_calls.calls = << >> => sent[1].tool_calls = NoToolCalls

C22_Witness ==
    /\ BufferedDone
    /\ GeneratedText =
           InContainer("tool_calls",
                       << ShapeKey("h", << "{", "}" >>), << "{", "}" >>,
                          Braces(Member("name", Q("f"))) >>)
    /\ Len(sent[1].tool_calls.calls) = 2
    /\ sent[1].tool_calls.calls[1].function.name = Str(<< "h" >>)
    /\ sent[1].tool_calls.calls[2].function.name = Str(<< "f" >>)
    /\ sent[1].tool_calls.calls[2].function.index = 2

\* the nesting depth the scan holds after the i-th atom of the text: one up
\* for every opening bracket, one down for every closing bracket
DepthAfter(text, i) ==
    Cardinality({ k \in 1..i : text[k] \in { "{", "[" } })
    - Cardinality({ k \in 1..i : text[k] \in { "}", "]" } })

\* a well-formed payload after narrative that holds an unmatched closing
\* bracket
AfterStrayCloser == << "}", Blank >> \o ShapeKey("f", << "{", "}" >>)

\* C34: during the left-to-right scan the nesting depth never becomes
\* negative, so every span that starts at an opening bracket outside any open
\* span and ends where its nesting returns to zero becomes a candidate; an
\* unmatched closing bracket earlier in the text does not prevent a later
\* well-formed payload from being found.
C34_DepthNeverNegative ==
    BufferedDone =>
        LET text == strip(GeneratedText)
        IN  /\ \A i \in 1..Len(text) : DepthAfter(text, i) >= 0
            /\ text = AfterStrayCloser => sent[1].tool_calls.found

(***************************************************************************)
(* Properties of the embeddings (checked under SpecEmbed).                 *)
(***************************************************************************)
\* a strategy has been chosen for the slot's model name
StrategyChosen == embed_out # << >> /\ embed_out[1].raised = None
ActiveName == lower(Spell(model_manager.current_model_name))
KnownFamilies == BertFamilies \cup GptFamilies \cup E5Families \cup SentenceFamilies

\* C24: the pooling strategy depends only on the active model's name, taken
\* case-insensitively: a name that contains sentence, instructor or minilm
\* selects mean_no_special, and so does a name that contains no known family
\* substring, no name at all included.
C24_SentenceFamiliesMeanNoSpecial ==
    StrategyChosen =>
        /\ AnyIn(SentenceFamilies, ActiveName) => embed_out[1].strategy = "mean_no_special"
        /\ ~AnyIn(KnownFamilies, ActiveName) => embed_out[1].strategy = "mean_no_special"

\* embed() has returned a vector
Embedded == StrategyChosen /\ embed_in # << >>

\* C25: every vector embed returns has L2 norm 1, for every strategy and
\* every input, also when every token position is masked out as special.
C25_UnitNorm == Embedded => embed_out[1].vector.norm_squared = 1

\* the documented rule list, in order, and the documented strategies
RuleList ==
    << [ families |-> BertFamilies, strategy |-> "cls" ],
       [ families |-> GptFamilies, strategy |-> "last_token" ],
       [ families |-> E5Families, strategy |-> "cls" ],
       [ families |-> SentenceFamilies, strategy |-> "mean_no_special" ] >>
DocumentedStrategies == { "cls", "last_token", "mean", "mean_no_special" }

\* the strategy of the earliest rule one of whose substrings the name holds
FirstMatch(name) ==
    LET hits == { i \in 1..Len(RuleList) :
                    \E f \in RuleList[i].families : Contains(name, f) }
    IN  IF hits = {} THEN "mean_no_special"
        ELSE RuleList[CHOOSE i \in hits : \A j \in hits : i <= j].strategy

\* C40: the strategy is that of the earliest rule of the list that the
\* lower-cased model name matches, mean_no_special when none matches, and
\* each of the four documented strategies cls, last_token, mean and
\* mean_no_special is selected for at least one model name.
C40_RuleListSelectsEveryStrategy ==
    StrategyChosen =>
        /\ embed_out[1].strategy = FirstMatch(ActiveName)
        /\ \A strategy \in DocumentedStrategies :
               \E name \in EmbedModelNames :
                   detect_embedding_strategy(Spell(name)) = strategy

(***************************************************************************)
(* Properties of the event loop (checked under SpecServe).                 *)
(***************************************************************************)
\* C26: a /health request that arrives while a load is in progress is
\* answered before that load completes, with the state known before it.
C26_HealthAnsweredDuringLoad ==
    \A i \in 1..Len(health) :
        (health[i].during > 0 /\ health[i].during <= loadSeq) =>
            /\ health[i].answered
            /\ health[i].loads_done < health[i].during

\* the completion handler is between its first engine call and its terminal event
Generating == Validated /\ engineCalls # << >> /\ ~Terminated

\* C27: two concurrent completion requests never have their token
\* production interleaved: at most one generation is between its first
\* engine call and its terminal event.
C27_EngineSerialized == ~(Generating /\ other \in { "token_1", "token_2" })

\* C28: once the client has disconnected, the handler requests no further
\* token from the engine after the one in flight, in either delivery mode.
C28_DisconnectAbandonsLoop ==
    gone # << >> => produced <= gone[1].produced + 1

(***************************************************************************)
(* Properties of the constructor (checked under SpecConstruct).           *)
(***************************************************************************)
\* a manager has just been constructed
Constructed == built # << >> /\ ~built[1].raised

\* the two cache variables: filled with the model root when unset or empty,
\* left alone otherwise
CacheVariablesFilled ==
    \A key \in { "HUGGINGFACE_HUB_CACHE", "HF_HOME" } :
        IF EnvTruthy(built[1].before, key)
        THEN environ[key] = built[1].before[key]
        ELSE environ[key] = << model_path >>

\* the path a value names, its leading ~ taken for the home directory
UnderHome(value) ==
    IF value # << >> /\ value[1] = Tilde
    THEN Home \o SubSeq(value, 2, Len(value))
    ELSE value

\* two texts name the same Path: they agree up to trailing separators
SamePath(a, b) ==
    \E n \in 0..2, m \in 0..2 :
        a \o [ i \in 1..n |-> "" ] = b \o [ i \in 1..m |-> "" ]

\* C31 (as amended): on construction the model root is the path OLLAMA_MODELS
\* names, a leading ~ expanded to the home directory, when the variable is
\* set and not empty, and the default root otherwise; HUGGINGFACE_HUB_CACHE
\* and HF_HOME are each set to the model root when unset or empty and left
\* unchanged otherwise.
C31_ModelRootExpanded ==
    Constructed =>
        /\ IF EnvTruthy(built[1].before, "OLLAMA_MODELS")
           THEN SamePath(model_path, UnderHome(built[1].before["OLLAMA_MODELS"][1]))
           ELSE model_path = default_base_path
        /\ CacheVariablesFilled

\* OLLAMA_MODELS under ~, one cache variable empty and one set
C31_Witness ==
    /\ Constructed
    /\ built[1].before["OLLAMA_MODELS"] = << << Tilde, "m" >> >>
    /\ built[1].before["HF_HOME"] = << << >> >>
    /\ built[1].before["HUGGINGFACE_HUB_CACHE"] = << << Root, "m" >> >>
    /\ model_path = Home \o << "m" >>
    /\ environ["HF_HOME"] = << model_path >>

\* C31 (as stated): on construction the model root is the value of
\* OLLAMA_MODELS when set and not empty, and the default root otherwise; the
\* two cache variables are set to the model root when unset or empty and
\* left unchanged otherwise.
C31_ModelRootIsValue ==
    Constructed =>
        /\ IF EnvTruthy(built[1].before, "OLLAMA_MODELS")
           THEN SamePath(model_path, built[1].before["OLLAMA_MODELS"][1])
           ELSE model_path = default_base_path
        /\ CacheVariablesFilled

(***************************************************************************)
(* Properties of the slot between and under requests (checked under       *)
(* SpecSlot and SpecFrame).                                                *)
(***************************************************************************)
\* the name is set exactly when model and tokenizer are, and the vision flag
\* only with a model
SlotConsistent(s) ==
    /\ (s.current_model_name # None) <=> (s.model # None /\ s.tokenizer # None)
    /\ s.is_vision_model => s.model # None

\* a /health answer given since the last /load describes the slot
HealthDescribes(answer, s) ==
    /\ answer.model_loaded <=> s.current_model_name # None
    /\ answer.current_model = s.current_model_name
    /\ (\E k \in 1..Len(answer.capabilities) : answer.capabilities[k] = "vision")
           <=> s.is_vision_model

\* C33: in every state between requests, after any sequence of successful,
\* failed and no-op loads and of embeddings, the model name is non-null
\* exactly when model and tokenizer are both non-null, is_vision is true only
\* when a model is loaded, and /health reports model_loaded = (name is
\* non-null), current_model = name, and the "vision" capability exactly when
\* is_vision is true.
C33_SlotConsistency ==
    /\ SlotConsistent(model_manager)
    /\ \A i \in 1..Len(health) :
           (health[i].answered /\ health[i].loads_done = loadSeq)
           => HealthDescribes(health[i], model_manager)

\* /health answered after a failed load that followed a load of a vision
\* model: nothing is reported loaded
C33_Witness ==
    /\ loadSeq = 2
    /\ lastLoad.prev_result = "loaded"
    /\ lastLoad.prev_loader = "vlm"
    /\ lastLoad.result = "failed"
    /\ Len(health) = 1
    /\ health[1].answered
    /\ health[1].loads_done = 2
    /\ ~health[1].model_loaded
    /\ health[1].capabilities = << "completion" >>

\* C35: generation and embedding are read-only on the slot: no step of a
\* completion (text or vision path, streamed or buffered, ending normally,
\* in error, by rejection or by client disconnect) and no embedding changes
\* the model name, model, tokenizer or is_vision flag; a step that changes
\* the slot is a /load.
C35_OnlyLoadWritesSlot ==
    [][ model_manager' # model_manager => loadSeq' = loadSeq + 1 ]_vars

\* a vision model loaded, a streamed completion with an image broken off by
\* the client, and the slot as the load left it
C35_Witness ==
    /\ pc = "closed"
    /\ gone # << >>
    /\ req.images # << >>
    /\ sent # << >>
    /\ lastLoad.result = "loaded"
    /\ model_manager.is_vision_model
    /\ model_manager.current_model_name = lastLoad.name

====
